---- MODULE Spec2Model ----
(***************************************************************************)
(* Protocol engine of the JBL AV receiver integration: the frame codec     *)
(* (JBLAV._extract_message), the response decoder                          *)
(* (JBLProtocol.parse_response), the command encoder                       *)
(* (JBLProtocol.build_command), the reconciler (JBLAV._process_response    *)
(* and the _handle_* methods) and the read loop of                         *)
(* JBLAV.maintain_connection.                                              *)
(*                                                                         *)
(* Bytes are the integers 0..255.  Python's 0-based indices are kept       *)
(* 1-based here; a failed search is NotFound (Python: -1 / ValueError).    *)
(***************************************************************************)
EXTENDS Integers, Sequences, FiniteSets, TLC

VARIABLES
    self,       \* the JBLAV object: handles, flag and the cached snapshot
    pc,         \* position of the session: Disconnected/Established/Ready/Ended
    buffer,     \* the bytearray local to maintain_connection
    lastRead,   \* the bytes returned by the last reader.read(), NoRead if none
    drained,    \* per frame extracted by the last step: message, changed, notified
    sent,       \* the command frames written to the socket by the last step
    stream,     \* codec runs: the inbound byte stream of the run
    pos,        \* codec runs: how many bytes of stream have been read
    cuts,       \* codec runs: the sizes of the reads so far
    outAll,     \* codec runs: every frame extracted so far, in order
    request,    \* decoder runs: what is to be encoded / decoded
    encoded,    \* decoder runs: result of build_command
    parsed,     \* decoder runs: result of parse_response
    link,       \* the TCP transport: none/up/eof/error/closed
    closing,    \* close_connection: idle, or suspended in wait_closed
    hs,         \* handshake commands maintain_connection has sent so far
    issued,     \* the writes of the handshake of the current cycle
    event,      \* what the last step was
    result,     \* return value of the last control operation
    call,       \* the control method called by the last step, and its argument
    handled,    \* the entity request handled by the last step: entity, cmd_id, params
    status,     \* status code returned by the last entity handle_command
    attributes  \* the media player entity's attributes, STATE only

taskVars == <<link, closing, hs, issued, event, result, call, handled, status, attributes>>
sessionVars == <<self, pc, buffer, lastRead, drained, sent,
                 link, closing, hs, issued, event, result, call, handled, status, attributes>>
codecVars == <<stream, pos, cuts, outAll>>
protoVars == <<request, encoded, parsed>>
vars == <<self, pc, buffer, lastRead, drained, sent,
          stream, pos, cuts, outAll, request, encoded, parsed,
          link, closing, hs, issued, event, result, call, handled, status, attributes>>

----------------------------------------------------------------------------
(* Protocol constants *)

CMD_START == 35
RESP_START == <<2, 35>>
END == 13
REQUEST_DATA == 240
STATUS_UPDATE == 0

POWER == 0
INPUT_SOURCE == 5
VOLUME == 6
MUTE == 7
SURROUND_MODE == 8
ROOM_EQ == 13
INITIALIZATION == 80
HEARTBEAT == 81

TV_ARC == 1
BLUETOOTH == 13
NATIVE == 6

GarbageLimit == 100
MinMessage == 5

None == -1
NotFound == 0
Byte == 0..255

----------------------------------------------------------------------------
(* Helpers on byte sequences *)

Min(S) == CHOOSE x \in S : \A y \in S : x <= y

\* buffer.index(b): first position of b, NotFound when absent
index(buf, b) ==
    LET hits == {i \in 1..Len(buf) : buf[i] = b}
    IN IF hits = {} THEN NotFound ELSE Min(hits)

\* the scan for the two-byte start marker 0x02 0x23
start_idx(buf) ==
    LET hits == {i \in 1..(Len(buf) - 1) : buf[i] = 2 /\ buf[i + 1] = 35}
    IN IF hits = {} THEN NotFound ELSE Min(hits)

----------------------------------------------------------------------------
(* Frame codec: JBLAV._extract_message.  Returns the message (or none)    *)
(* together with the buffer as the call leaves it.                        *)

\* variant: a marker-less buffer is cleared whatever its length
_extract_message_clears_any_garbage(buf) ==
    IF Len(buf) < MinMessage
    THEN [is_none |-> TRUE, message |-> <<>>, buffer |-> buf]
    ELSE IF start_idx(buf) = NotFound
    THEN [is_none |-> TRUE, message |-> <<>>, buffer |-> <<>>]
    ELSE LET trimmed == SubSeq(buf, start_idx(buf), Len(buf))
             end_idx == index(trimmed, END)
         IN IF end_idx = NotFound
            THEN [is_none |-> TRUE, message |-> <<>>, buffer |-> trimmed]
            ELSE [is_none |-> FALSE,
                  message |-> SubSeq(trimmed, 1, end_idx),
                  buffer |-> SubSeq(trimmed, end_idx + 1, Len(trimmed))]

\* variant: a marker-less buffer is never cleared
_extract_message_keeps_garbage(buf) ==
    IF Len(buf) < MinMessage
    THEN [is_none |-> TRUE, message |-> <<>>, buffer |-> buf]
    ELSE IF start_idx(buf) = NotFound
    THEN [is_none |-> TRUE, message |-> <<>>, buffer |-> buf]
    ELSE LET trimmed == SubSeq(buf, start_idx(buf), Len(buf))
             end_idx == index(trimmed, END)
         IN IF end_idx = NotFound
            THEN [is_none |-> TRUE, message |-> <<>>, buffer |-> trimmed]
            ELSE [is_none |-> FALSE,
                  message |-> SubSeq(trimmed, 1, end_idx),
                  buffer |-> SubSeq(trimmed, end_idx + 1, Len(trimmed))]

\* variant: a marker-less buffer is cleared from 100 bytes on
_extract_message_clears_at_limit(buf) ==
    IF Len(buf) < MinMessage
    THEN [is_none |-> TRUE, message |-> <<>>, buffer |-> buf]
    ELSE IF start_idx(buf) = NotFound
    THEN [is_none |-> TRUE, message |-> <<>>,
          buffer |-> IF Len(buf) >= GarbageLimit THEN <<>> ELSE buf]
    ELSE LET trimmed == SubSeq(buf, start_idx(buf), Len(buf))
             end_idx == index(trimmed, END)
         IN IF end_idx = NotFound
            THEN [is_none |-> TRUE, message |-> <<>>, buffer |-> trimmed]
            ELSE [is_none |-> FALSE,
                  message |-> SubSeq(trimmed, 1, end_idx),
                  buffer |-> SubSeq(trimmed, end_idx + 1, Len(trimmed))]

\* variant: the 100-byte drop also applies to an unterminated frame
_extract_message_drops_long_partial(buf) ==
    IF Len(buf) < MinMessage
    THEN [is_none |-> TRUE, message |-> <<>>, buffer |-> buf]
    ELSE IF start_idx(buf) = NotFound
    THEN [is_none |-> TRUE, message |-> <<>>,
          buffer |-> IF Len(buf) > GarbageLimit THEN <<>> ELSE buf]
    ELSE LET trimmed == SubSeq(buf, start_idx(buf), Len(buf))
             end_idx == index(trimmed, END)
         IN IF end_idx = NotFound
            THEN [is_none |-> TRUE, message |-> <<>>,
                  buffer |-> IF Len(trimmed) > GarbageLimit THEN <<>> ELSE trimmed]
            ELSE [is_none |-> FALSE,
                  message |-> SubSeq(trimmed, 1, end_idx),
                  buffer |-> SubSeq(trimmed, end_idx + 1, Len(trimmed))]

\* variant: the message runs to the last 0D of the buffer
_extract_message_to_last_terminator(buf) ==
    IF Len(buf) < MinMessage
    THEN [is_none |-> TRUE, message |-> <<>>, buffer |-> buf]
    ELSE IF start_idx(buf) = NotFound
    THEN [is_none |-> TRUE, message |-> <<>>,
          buffer |-> IF Len(buf) > GarbageLimit THEN <<>> ELSE buf]
    ELSE LET trimmed == SubSeq(buf, start_idx(buf), Len(buf))
             ends == {i \in 1..Len(trimmed) : trimmed[i] = END}
             end_idx == IF ends = {} THEN NotFound ELSE CHOOSE i \in ends : \A j \in ends : j <= i
         IN IF end_idx = NotFound
            THEN [is_none |-> TRUE, message |-> <<>>, buffer |-> trimmed]
            ELSE [is_none |-> FALSE,
                  message |-> SubSeq(trimmed, 1, end_idx),
                  buffer |-> SubSeq(trimmed, end_idx + 1, Len(trimmed))]

\* variant: a frame whose terminator has not arrived is dropped
_extract_message_drops_partial(buf) ==
    IF Len(buf) < MinMessage
    THEN [is_none |-> TRUE, message |-> <<>>, buffer |-> buf]
    ELSE IF start_idx(buf) = NotFound
    THEN [is_none |-> TRUE, message |-> <<>>,
          buffer |-> IF Len(buf) > GarbageLimit THEN <<>> ELSE buf]
    ELSE LET trimmed == SubSeq(buf, start_idx(buf), Len(buf))
             end_idx == index(trimmed, END)
         IN IF end_idx = NotFound
            THEN [is_none |-> TRUE, message |-> <<>>, buffer |-> <<>>]
            ELSE [is_none |-> FALSE,
                  message |-> SubSeq(trimmed, 1, end_idx),
                  buffer |-> SubSeq(trimmed, end_idx + 1, Len(trimmed))]

_extract_message(buf) ==
    IF Len(buf) < MinMessage
    THEN [is_none |-> TRUE, message |-> <<>>, buffer |-> buf]
    ELSE IF start_idx(buf) = NotFound
    THEN [is_none |-> TRUE, message |-> <<>>,
          buffer |-> IF Len(buf) > GarbageLimit THEN <<>> ELSE buf]
    ELSE LET trimmed == SubSeq(buf, start_idx(buf), Len(buf))
             end_idx == index(trimmed, END)
         IN IF end_idx = NotFound
            THEN [is_none |-> TRUE, message |-> <<>>, buffer |-> trimmed]
            ELSE [is_none |-> FALSE,
                  message |-> SubSeq(trimmed, 1, end_idx),
                  buffer |-> SubSeq(trimmed, end_idx + 1, Len(trimmed))]

----------------------------------------------------------------------------
(* Command encoder and response decoder: JBLProtocol *)

ValueError == <<-1>>

\* variant: the length byte counts the terminator as well
build_command_length_off_by_one(cmd_id, data) ==
    IF cmd_id \in Byte /\ Len(data) + 1 \in Byte /\ \A i \in 1..Len(data) : data[i] \in Byte
    THEN <<CMD_START, cmd_id, Len(data) + 1>> \o data \o <<END>>
    ELSE ValueError

\* variant: values outside 0..255 are reduced to a byte instead of raising
build_command_masks_bytes(cmd_id, data) ==
    <<CMD_START, cmd_id % 256, Len(data) % 256>>
    \o [i \in 1..Len(data) |-> data[i] % 256] \o <<END>>

\* bytes([...]) raises ValueError for an element outside 0..255
build_command(cmd_id, data) ==
    IF cmd_id \in Byte /\ Len(data) \in Byte /\ \A i \in 1..Len(data) : data[i] \in Byte
    THEN <<CMD_START, cmd_id, Len(data)>> \o data \o <<END>>
    ELSE ValueError

NoneParsed == [is_none |-> TRUE, cmd_id |-> 0, rsp_code |-> 0, data |-> <<>>]

parse_response(data) ==
    IF Len(data) < 5 THEN NoneParsed
    ELSE IF SubSeq(data, 1, 2) # RESP_START THEN NoneParsed
    ELSE IF data[Len(data)] # END THEN NoneParsed
    ELSE LET data_len == data[5]
         IN [is_none |-> FALSE,
             cmd_id |-> data[3],
             rsp_code |-> data[4],
             data |-> IF data_len > 0 /\ Len(data) >= 5 + data_len + 1
                      THEN SubSeq(data, 6, 5 + data_len)
                      ELSE <<>>]

----------------------------------------------------------------------------
(* Reconciler: the _handle_* methods and _process_response.  Each returns *)
(* the object after the call and the number of _notify_entities calls.    *)

Unnotified(s) == [self |-> s, notified |-> 0]

\* one call of _notify_entities (it emits the UPDATE events of all entities)
_notify_entities == 1

_handle_initialization(s, data) ==
    IF Len(data) > 0
    THEN [self |-> [s EXCEPT !._model = data[1]], notified |-> 0]
    ELSE Unnotified(s)

\* variant: a power-off report is taken for the end of the connection
_handle_power_marks_disconnected(s, data) ==
    IF Len(data) > 0
    THEN [self |-> [s EXCEPT !._power_state = (data[1] = 1),
                             !._initialized = (data[1] = 1)],
          notified |-> IF s._power_state # (data[1] = 1) THEN _notify_entities ELSE 0]
    ELSE Unnotified(s)

_handle_power(s, data) ==
    IF Len(data) > 0
    THEN [self |-> [s EXCEPT !._power_state = (data[1] = 1)],
          notified |-> IF s._power_state # (data[1] = 1) THEN _notify_entities ELSE 0]
    ELSE Unnotified(s)

\* variant: the old/new comparison is dropped, every volume frame notifies
_handle_volume_always_notifies(s, data) ==
    IF Len(data) > 0
    THEN [self |-> [s EXCEPT !._volume = data[1]], notified |-> _notify_entities]
    ELSE Unnotified(s)

_handle_volume(s, data) ==
    IF Len(data) > 0
    THEN [self |-> [s EXCEPT !._volume = data[1]],
          notified |-> IF s._volume # (data[1]) THEN _notify_entities ELSE 0]
    ELSE Unnotified(s)

\* variant: a mute frame with payload 1 is taken as "toggle"
_handle_mute_toggles(s, data) ==
    IF Len(data) > 0
    THEN LET new == IF data[1] = 1 THEN ~s._muted ELSE FALSE
         IN [self |-> [s EXCEPT !._muted = new],
             notified |-> IF s._muted # new THEN _notify_entities ELSE 0]
    ELSE Unnotified(s)

_handle_mute(s, data) ==
    IF Len(data) > 0
    THEN [self |-> [s EXCEPT !._muted = (data[1] = 1)],
          notified |-> IF s._muted # (data[1] = 1) THEN _notify_entities ELSE 0]
    ELSE Unnotified(s)

\* variant: the payload guard is len(data) > 1, a one-byte payload is ignored
_handle_source_needs_two_bytes(s, data) ==
    IF Len(data) > 1
    THEN [self |-> [s EXCEPT !._source = data[1]],
          notified |-> IF s._source # (data[1]) THEN _notify_entities ELSE 0]
    ELSE Unnotified(s)

_handle_source(s, data) ==
    IF Len(data) > 0
    THEN [self |-> [s EXCEPT !._source = data[1]],
          notified |-> IF s._source # (data[1]) THEN _notify_entities ELSE 0]
    ELSE Unnotified(s)

\* variant: an empty payload puts the surround mode back to its default
_handle_surround_mode_resets_on_empty(s, data) ==
    IF Len(data) > 0
    THEN [self |-> [s EXCEPT !._surround_mode = data[1]],
          notified |-> IF s._surround_mode # (data[1]) THEN _notify_entities ELSE 0]
    ELSE [self |-> [s EXCEPT !._surround_mode = NATIVE],
          notified |-> IF s._surround_mode # NATIVE THEN _notify_entities ELSE 0]

_handle_surround_mode(s, data) ==
    IF Len(data) > 0
    THEN [self |-> [s EXCEPT !._surround_mode = data[1]],
          notified |-> IF s._surround_mode # (data[1]) THEN _notify_entities ELSE 0]
    ELSE Unnotified(s)

\* variant: a cmd_id without a branch of its own is handled as a volume report
Dispatch_falls_back_to_volume(s, p) ==
    IF p.cmd_id = INITIALIZATION THEN _handle_initialization(s, p.data)
    ELSE IF p.cmd_id = POWER THEN _handle_power(s, p.data)
    ELSE IF p.cmd_id = MUTE THEN _handle_mute(s, p.data)
    ELSE IF p.cmd_id = INPUT_SOURCE THEN _handle_source(s, p.data)
    ELSE IF p.cmd_id = SURROUND_MODE THEN _handle_surround_mode(s, p.data)
    ELSE _handle_volume(s, p.data)

\* the dispatch on cmd_id, shared by _process_response and its variant
Dispatch(s, p) ==
    IF p.cmd_id = INITIALIZATION THEN _handle_initialization(s, p.data)
    ELSE IF p.cmd_id = POWER THEN _handle_power(s, p.data)
    ELSE IF p.cmd_id = VOLUME THEN _handle_volume(s, p.data)
    ELSE IF p.cmd_id = MUTE THEN _handle_mute(s, p.data)
    ELSE IF p.cmd_id = INPUT_SOURCE THEN _handle_source(s, p.data)
    ELSE IF p.cmd_id = SURROUND_MODE THEN _handle_surround_mode(s, p.data)
    ELSE Unnotified(s)

\* variant: the rsp_code check is missing, error responses are applied
_process_response_ignores_rsp_code(s, message) ==
    LET p == parse_response(message)
    IN IF p.is_none THEN Unnotified(s) ELSE Dispatch(s, p)

_process_response(s, message) ==
    LET p == parse_response(message)
    IN IF p.is_none THEN Unnotified(s)
       ELSE IF p.rsp_code # STATUS_UPDATE THEN Unnotified(s)
       ELSE Dispatch(s, p)

\* the attributes of the snapshot that an application changed
Attributes == {"_model", "_power_state", "_volume", "_muted", "_source", "_surround_mode"}

Changed(old, new) == {a \in Attributes : old[a] # new[a]}

----------------------------------------------------------------------------
(* The session: JBLAV.__init__, establish_connection, maintain_connection, *)
(* close_connection                                                        *)

Handle == 1
NoRead == <<>>
MaxRead == 1024

\* the drain loop of maintain_connection: extract and process until the
\* codec returns None
\* variant: one frame per read is extracted and processed, the rest waits
Drain_once(buf, s, log) ==
    LET r == _extract_message(buf)
    IN IF r.is_none
       THEN [buffer |-> r.buffer, self |-> s, log |-> log]
       ELSE LET p == _process_response(s, r.message)
            IN [buffer |-> r.buffer, self |-> p.self,
                log |-> Append(log, [message |-> r.message,
                                     changed |-> Changed(s, p.self),
                                     notified |-> p.notified])]

RECURSIVE Drain(_, _, _)
Drain(buf, s, log) ==
    LET r == _extract_message(buf)
    IN IF r.is_none
       THEN [buffer |-> r.buffer, self |-> s, log |-> log]
       ELSE LET p == _process_response(s, r.message)
            IN Drain(r.buffer, p.self,
                     Append(log, [message |-> r.message,
                                  changed |-> Changed(s, p.self),
                                  notified |-> p.notified]))

\* the drain loop when the n-th call of _notify_entities raises: the
\* attribute is already stored, the exception leaves _process_response and the
\* while loop, and what the buffer still holds is not looked at
RECURSIVE DrainRaising(_, _, _, _)
DrainRaising(buf, s, log, n) ==
    LET r == _extract_message(buf)
    IN IF r.is_none
       THEN [buffer |-> r.buffer, self |-> s, log |-> log, raised |-> FALSE]
       ELSE LET p == _process_response(s, r.message)
                entry == [message |-> r.message,
                          changed |-> Changed(s, p.self),
                          notified |-> p.notified]
            IN IF p.notified > 0 /\ n = 1
               THEN [buffer |-> r.buffer, self |-> p.self,
                     log |-> Append(log, entry), raised |-> TRUE]
               ELSE DrainRaising(r.buffer, p.self, Append(log, entry), n - p.notified)

\* the handshake and keep-alive commands, built as the discovery tool builds
\* them (build_command(0x50, REQUEST_DATA), build_command(0x51),
\* build_command(cmd_id, REQUEST_DATA))
cmd_initialization == build_command(INITIALIZATION, <<REQUEST_DATA>>)
cmd_heartbeat == build_command(HEARTBEAT, <<>>)
cmd_query(cmd_id) == build_command(cmd_id, <<REQUEST_DATA>>)

\* variant: header and rest of the command are written separately, with a
\* suspension between the two writes
_send_command_raw_in_pieces(s, command) ==
    IF s._writer = None THEN <<>>
    ELSE <<SubSeq(command, 1, 3), SubSeq(command, 4, Len(command))>>

\* _send_command_raw: the bytes that reach the socket (none without a writer)
_send_command_raw(s, command) == IF s._writer = None THEN <<>> ELSE <<command>>

_query_all_state(s) ==
    _send_command_raw(s, cmd_query(POWER)) \o _send_command_raw(s, cmd_query(VOLUME))
    \o _send_command_raw(s, cmd_query(MUTE)) \o _send_command_raw(s, cmd_query(INPUT_SOURCE))
    \o _send_command_raw(s, cmd_query(SURROUND_MODE))

InitSelf ==
    [_reader |-> None, _writer |-> None, _initialized |-> FALSE,
     _model |-> None, _power_state |-> FALSE, _volume |-> 0, _muted |-> FALSE,
     _source |-> TV_ARC, _surround_mode |-> NATIVE]

IdleCodec == stream = <<>> /\ pos = 0 /\ cuts = <<>> /\ outAll = <<>>
\* decoder runs: nothing asked, nothing encoded, nothing decoded yet
NoRequest == [kind |-> "none"]
NotParsed == [is_none |-> TRUE, cmd_id |-> None, rsp_code |-> None, data |-> <<>>]
IdleProto == request = NoRequest /\ encoded = <<>> /\ parsed = NotParsed
NoCall == [name |-> "none", arg |-> 0]

\* no transport yet, no close under way, no handshake, no control operation
\* params of an entity request: None, an empty dict, or one key and its
\* value, an int n or a str s
Param(key, kind, n, s) == [key |-> key, kind |-> kind, n |-> n, s |-> s]
NoParams == Param("None", "none", 0, "")
EmptyParams == Param("", "none", 0, "")

NoCommand == [entity |-> "none", cmd_id |-> "none", params |-> NoParams, depth |-> 0]

\* the media player entity as constructed
InitAttributes == [STATE |-> "UNAVAILABLE"]

IdleTasks ==
    /\ link = "none" /\ closing = "idle" /\ hs = 0 /\ issued = <<>>
    /\ event = "none" /\ result = "none" /\ call = NoCall
    /\ handled = NoCommand /\ status = "none" /\ attributes = InitAttributes

Init ==
    /\ self = InitSelf
    /\ pc = "Disconnected"
    /\ buffer = <<>>
    /\ lastRead = NoRead
    /\ drained = <<>>
    /\ sent = <<>>
    /\ IdleCodec
    /\ IdleProto
    /\ IdleTasks

\* variant: the volume query is sent before the power query
commands_volume_first ==
    <<cmd_query(VOLUME), cmd_query(POWER), cmd_query(MUTE),
      cmd_query(INPUT_SOURCE), cmd_query(SURROUND_MODE)>>

\* the commands of _query_all_state, in the order of its list
commands == <<cmd_query(POWER), cmd_query(VOLUME), cmd_query(MUTE),
              cmd_query(INPUT_SOURCE), cmd_query(SURROUND_MODE)>>

\* what maintain_connection sends before its first read
HandshakeCommands == <<cmd_initialization>> \o commands

\* writer.drain() after a write: it returns (TRUE) or raises (FALSE); on a
\* transport that has reported a socket error it raises
DrainOutcomes(l) == IF l = "error" THEN {FALSE} ELSE BOOLEAN

\* a drain that raises on a transport that was up is the socket error
LinkAfterWrite(s, l, ok) == IF s._writer # None /\ l = "up" /\ ~ok THEN "error" ELSE l

\* return value of _send_command_raw
Returned(s, ok) == IF s._writer # None /\ ok THEN "True" ELSE "False"

\* open_connection succeeded: handles stored, _initialized set
Connected ==
    /\ self' = [self EXCEPT !._reader = Handle, !._writer = Handle, !._initialized = TRUE]
    /\ pc' = "Established"
    /\ link' = "up"
    /\ hs' = 0 /\ issued' = <<>>
    /\ event' = "connected"

\* variant: the handles are stored before the timeout is noticed
ConnectFailed_keeps_handles ==
    /\ event' = "connect_error"
    /\ self' = [self EXCEPT !._reader = Handle, !._writer = Handle]
    /\ UNCHANGED <<pc, link, hs, issued>>

\* open_connection timed out or failed: the exception goes to the caller
ConnectFailed ==
    /\ event' = "connect_error"
    /\ UNCHANGED <<self, pc, link, hs, issued>>

establish_connection ==
    /\ pc = "Disconnected" /\ closing = "idle"
    /\ Connected \/ ConnectFailed
    /\ lastRead' = NoRead /\ drained' = <<>> /\ sent' = <<>> /\ result' = "none" /\ call' = NoCall
    /\ handled' = NoCommand /\ status' = "none" /\ UNCHANGED attributes
    /\ UNCHANGED <<buffer, closing, codecVars, protoVars>>

\* variant: the pending buffer is kept from one cycle to the next
maintain_connection_keeps_buffer ==
    /\ pc \in {"Established", "Handshaking"}
    /\ \E ok \in DrainOutcomes(link) :
         /\ sent' = _send_command_raw(self, HandshakeCommands[hs + 1])
         /\ link' = LinkAfterWrite(self, link, ok)
    /\ issued' = issued \o sent'
    /\ hs' = hs + 1
    /\ pc' = IF hs' = Len(HandshakeCommands) THEN "Ready" ELSE "Handshaking"
    /\ buffer' = buffer
    /\ event' = "handshake"
    /\ lastRead' = NoRead /\ drained' = <<>> /\ result' = "none" /\ call' = NoCall
    /\ handled' = NoCommand /\ status' = "none" /\ UNCHANGED attributes
    /\ UNCHANGED <<self, closing, codecVars, protoVars>>

\* maintain_connection up to the while loop, one _send_command_raw and the
\* sleep after it per step: the initialization command, the five queries,
\* then buffer = bytearray()
maintain_connection ==
    /\ pc \in {"Established", "Handshaking"}
    /\ \E ok \in DrainOutcomes(link) :
         /\ sent' = _send_command_raw(self, HandshakeCommands[hs + 1])
         /\ link' = LinkAfterWrite(self, link, ok)
    /\ issued' = issued \o sent'
    /\ hs' = hs + 1
    /\ pc' = IF hs' = Len(HandshakeCommands) THEN "Ready" ELSE "Handshaking"
    /\ buffer' = IF hs' = Len(HandshakeCommands) THEN <<>> ELSE buffer
    /\ event' = "handshake"
    /\ lastRead' = NoRead /\ drained' = <<>> /\ result' = "none" /\ call' = NoCall
    /\ handled' = NoCommand /\ status' = "none" /\ UNCHANGED attributes
    /\ UNCHANGED <<self, closing, codecVars, protoVars>>

\* reader.read returned data: extend the buffer, drain it, apply every frame
ReadData(chunk) ==
    /\ pc = "Ready"
    /\ chunk # <<>> /\ Len(chunk) <= MaxRead
    /\ LET d == Drain(buffer \o chunk, self, <<>>)
       IN /\ buffer' = d.buffer
          /\ self' = d.self
          /\ drained' = d.log
    /\ lastRead' = chunk
    /\ sent' = <<>>
    /\ UNCHANGED pc

\* reader.read returned data and the n-th _notify_entities call of the drain
\* raised: except Exception, break
ReadRaises(chunk, n) ==
    /\ pc = "Ready"
    /\ chunk # <<>> /\ Len(chunk) <= MaxRead
    /\ LET d == DrainRaising(buffer \o chunk, self, <<>>, n)
       IN /\ d.raised
          /\ buffer' = d.buffer
          /\ self' = d.self
          /\ drained' = d.log
    /\ lastRead' = chunk
    /\ sent' = <<>>
    /\ pc' = "Ended"

\* variant: a read timeout is handled like any other exception of the loop
ReadTimeout_breaks ==
    /\ pc = "Ready" /\ self._reader # None /\ link = "up"
    /\ pc' = "Ended"
    /\ event' = "timeout"
    /\ lastRead' = NoRead /\ drained' = <<>> /\ sent' = <<>> /\ result' = "none" /\ call' = NoCall
    /\ handled' = NoCommand /\ status' = "none" /\ UNCHANGED attributes
    /\ UNCHANGED <<self, buffer, link, closing, hs, issued, codecVars, protoVars>>

\* asyncio.TimeoutError: heartbeat, continue
ReadTimeout ==
    /\ pc = "Ready" /\ self._reader # None /\ link = "up"
    /\ \E ok \in DrainOutcomes(link) :
         /\ sent' = _send_command_raw(self, cmd_heartbeat)
         /\ link' = LinkAfterWrite(self, link, ok)
    /\ event' = "timeout"
    /\ lastRead' = NoRead /\ drained' = <<>> /\ result' = "none" /\ call' = NoCall
    /\ handled' = NoCommand /\ status' = "none" /\ UNCHANGED attributes
    /\ UNCHANGED <<self, pc, buffer, closing, hs, issued, codecVars, protoVars>>

\* the loop ends: the while condition fails (_reader released, at_eof), the
\* read returns nothing (peer closed) or raises (socket error, closed transport)
ReadFault ==
    /\ pc = "Ready"
    /\ self._reader = None \/ link \in {"eof", "error", "closed"}
    /\ pc' = "Ended"
    /\ event' = IF self._reader = None THEN "released" ELSE "read_" \o link
    /\ lastRead' = NoRead /\ drained' = <<>> /\ sent' = <<>> /\ result' = "none" /\ call' = NoCall
    /\ handled' = NoCommand /\ status' = "none" /\ UNCHANGED attributes
    /\ UNCHANGED <<self, buffer, link, closing, hs, issued, codecVars, protoVars>>

\* the last three assignments of close_connection; a cycle whose loop has
\* ended is over once the handles are released
Released ==
    /\ self' = [self EXCEPT !._reader = None, !._writer = None, !._initialized = FALSE]
    /\ closing' = "idle"
    /\ pc' = IF pc = "Ended" THEN "Disconnected" ELSE pc
    /\ event' = "closed"

\* close_connection from its call to its first suspension: writer.close(),
\* then await wait_closed(); without a writer it runs to its end
close_connection ==
    /\ closing = "idle"
    /\ IF self._writer # None
       THEN /\ link' = "closed"
            /\ closing' = "wait_closed"
            /\ event' = "closing"
            /\ UNCHANGED <<self, pc>>
       ELSE Released /\ UNCHANGED link
    /\ lastRead' = NoRead /\ drained' = <<>> /\ sent' = <<>> /\ result' = "none" /\ call' = NoCall
    /\ handled' = NoCommand /\ status' = "none" /\ UNCHANGED attributes
    /\ UNCHANGED <<buffer, hs, issued, codecVars, protoVars>>

\* close_connection after wait_closed() returned or raised
wait_closed ==
    /\ closing = "wait_closed"
    /\ Released
    /\ lastRead' = NoRead /\ drained' = <<>> /\ sent' = <<>> /\ result' = "none" /\ call' = NoCall
    /\ handled' = NoCommand /\ status' = "none" /\ UNCHANGED attributes
    /\ UNCHANGED <<buffer, link, hs, issued, codecVars, protoVars>>

\* the control operations that build their command with build_command alone
STREAMING_STATE == 17
SOFTWARE_VERSION == 2
VersionTypes == {240}
query_streaming_state == cmd_query(STREAMING_STATE)
query_software_version(version_type) == build_command(SOFTWARE_VERSION, <<version_type>>)
\* a call of a control method: its name and argument, the object as the
\* method leaves it and the command it hands to _send_command_raw
Called(name, arg, m) == [name |-> name, arg |-> arg, self |-> m.self, command |-> m.command]

QueryCalls(s) ==
    {Called("query_streaming_state", 0, [self |-> s, command |-> query_streaming_state])}
    \cup {Called("query_software_version", t,
                 [self |-> s, command |-> query_software_version(t)]) : t \in VersionTypes}

\* the control method runs to its return: one _send_command_raw, whose
\* result it returns
Invoke(c) ==
    /\ \E ok \in DrainOutcomes(link) :
         /\ sent' = _send_command_raw(c.self, c.command)
         /\ link' = LinkAfterWrite(c.self, link, ok)
         /\ result' = Returned(c.self, ok)
    /\ self' = c.self
    /\ call' = [name |-> c.name, arg |-> c.arg]
    /\ handled' = NoCommand /\ status' = "none" /\ UNCHANGED attributes
    /\ event' = "control"
    /\ lastRead' = NoRead /\ drained' = <<>>
    /\ UNCHANGED <<pc, buffer, closing, hs, issued, codecVars, protoVars>>

\* a control operation, called from the hub at any time
ControlOperation == \E c \in QueryCalls(self) : Invoke(c)

\* the receiver closes the connection
PeerClose ==
    /\ link = "up"
    /\ link' = "eof"
    /\ event' = "peer"
    /\ lastRead' = NoRead /\ drained' = <<>> /\ sent' = <<>> /\ result' = "none" /\ call' = NoCall
    /\ handled' = NoCommand /\ status' = "none" /\ UNCHANGED attributes
    /\ UNCHANGED <<self, pc, buffer, closing, hs, issued, codecVars, protoVars>>

\* the socket fails
SocketError ==
    /\ link = "up"
    /\ link' = "error"
    /\ event' = "socket"
    /\ lastRead' = NoRead /\ drained' = <<>> /\ sent' = <<>> /\ result' = "none" /\ call' = NoCall
    /\ handled' = NoCommand /\ status' = "none" /\ UNCHANGED attributes
    /\ UNCHANGED <<self, pc, buffer, closing, hs, issued, codecVars, protoVars>>

----------------------------------------------------------------------------
(* Inbound data of the session runs *)

\* an inbound frame as the receiver puts it on the wire
Frame(op, rc, payload) == <<2, 35, op, rc, Len(payload)>> \o payload \o <<END>>

MaxPending == 4
GarbageLen == 150
PARTY_MODE == 9

SessionOpcodes == {POWER, VOLUME, INITIALIZATION, PARTY_MODE}
SessionPayloads == {<<>>, <<1>>}
SessionFrames ==
    {Frame(op, STATUS_UPDATE, pl) : op \in SessionOpcodes, pl \in SessionPayloads}
    \cup {Frame(VOLUME, STATUS_UPDATE, <<0>>), Frame(MUTE, 1, <<1>>)}

\* 150 bytes without the marker 02 23: one plain run, one made of marker,
\* terminator and filler bytes in an order that never forms 02 23
Garbage == {[i \in 1..GarbageLen |-> 65],
            [i \in 1..GarbageLen |-> <<35, 13, 2, 0>>[(i % 4) + 1]]}

\* a frame cut after 2 and after 5 bytes, and two frames in one read
SplitFrames == {Frame(VOLUME, 0, <<1>>)}
Pieces == UNION {{SubSeq(f, 1, 2), SubSeq(f, 3, 5), SubSeq(f, 6, Len(f))} : f \in SplitFrames}
Pairs == {Frame(VOLUME, 0, <<1>>) \o Frame(VOLUME, 0, <<0>>),
          Frame(POWER, 0, <<1>>) \o Frame(MUTE, 0, <<1>>),
          <<2, 35, VOLUME, END>> \o Frame(VOLUME, 0, <<1>>)}

Chunks == SessionFrames \cup Garbage \cup Pieces \cup Pairs

Read ==
    /\ self._reader # None /\ link = "up"
    /\ Len(buffer) <= MaxPending
    /\ \/ /\ \E chunk \in Chunks : ReadData(chunk)
          /\ event' = "data"
       \/ /\ \E chunk \in Chunks, n \in 1..2 : ReadRaises(chunk, n)
          /\ event' = "raised"
    /\ result' = "none" /\ call' = NoCall
    /\ handled' = NoCommand /\ status' = "none" /\ UNCHANGED attributes
    /\ UNCHANGED <<link, closing, hs, issued, codecVars, protoVars>>

Next ==
    \/ establish_connection
    \/ maintain_connection
    \/ Read
    \/ ReadTimeout
    \/ ReadFault
    \/ close_connection
    \/ wait_closed
    \/ ControlOperation
    \/ PeerClose
    \/ SocketError

Spec == Init /\ [][Next]_vars

----------------------------------------------------------------------------
(* Runs that start in a Ready session: the state establish_connection and  *)
(* the handshake of maintain_connection leave behind                       *)

ReadySelf == [InitSelf EXCEPT !._reader = Handle, !._writer = Handle, !._initialized = TRUE]

\* established, handshake sent, nothing read yet
ReadyTasks ==
    /\ link = "up" /\ closing = "idle" /\ hs = Len(HandshakeCommands)
    /\ issued = _send_command_raw(ReadySelf, cmd_initialization) \o _query_all_state(ReadySelf)
    /\ event = "handshake" /\ result = "none" /\ call = NoCall
    /\ handled = NoCommand /\ status = "none" /\ attributes = InitAttributes

InitReady ==
    /\ self = ReadySelf
    /\ pc = "Ready"
    /\ buffer = <<>>
    /\ lastRead = NoRead
    /\ drained = <<>>
    /\ sent = <<cmd_query(SURROUND_MODE)>>
    /\ IdleCodec
    /\ IdleProto
    /\ ReadyTasks

\* number of _notify_entities calls of a step
RECURSIVE Notifications(_)
Notifications(log) ==
    IF log = <<>> THEN 0 ELSE Head(log).notified + Notifications(Tail(log))

\* the frames a step extracted, in order
Messages(log) == [i \in 1..Len(log) |-> log[i].message]

MaxVolume == 99
VolumeFrame(v) == Frame(VOLUME, STATUS_UPDATE, <<v>>)

ReadVolume ==
    /\ \E v \in 0..MaxVolume : ReadData(VolumeFrame(v))
    /\ UNCHANGED <<codecVars, protoVars, taskVars>>

\* a Ready session that receives volume status frames
SpecVolume == InitReady /\ [][ReadVolume]_vars

LastSource == 14
LastSurroundMode == 7
SurroundFrame(mode) == Frame(SURROUND_MODE, STATUS_UPDATE, <<mode>>)
SourceFrame(src) == Frame(INPUT_SOURCE, STATUS_UPDATE, <<src>>)

ReadSource ==
    /\ \E src \in 1..LastSource : ReadData(SourceFrame(src))
    /\ UNCHANGED <<codecVars, protoVars, taskVars>>

ReadSurround ==
    /\ \E mode \in 1..LastSurroundMode : ReadData(SurroundFrame(mode))
    /\ UNCHANGED <<codecVars, protoVars, taskVars>>

\* a Ready session that receives input-source and surround-mode status frames
NextSelect == ReadSource \/ ReadSurround

SpecSelect == InitReady /\ [][NextSelect]_vars

----------------------------------------------------------------------------
(* Control methods of JBLAV.  The cmd_* builders live in the protocol       *)
(* module; each is taken to be the encoder applied to the opcode of the     *)
(* wire format and a one-byte payload.                                      *)

PARTY_VOLUME == 10
cmd_power_on == build_command(POWER, <<1>>)
cmd_power_off == build_command(POWER, <<0>>)
cmd_volume_set(volume) == build_command(VOLUME, <<volume>>)
cmd_party_volume_set(volume) == build_command(PARTY_VOLUME, <<volume>>)
cmd_mute_on == build_command(MUTE, <<1>>)
cmd_mute_off == build_command(MUTE, <<0>>)
cmd_input_source_set(source) == build_command(INPUT_SOURCE, <<source>>)
cmd_surround_mode_set(mode) == build_command(SURROUND_MODE, <<mode>>)

turn_on(s) == [self |-> s, command |-> cmd_power_on]
turn_off(s) == [self |-> s, command |-> cmd_power_off]

\* variant: the argument is sent as it comes
set_volume_unclamped(s, volume) == [self |-> s, command |-> cmd_volume_set(volume)]

\* volume = max(0, min(99, volume))
set_volume(s, volume) ==
    LET clamped == IF volume > MaxVolume THEN MaxVolume ELSE IF volume < 0 THEN 0 ELSE volume
    IN [self |-> s, command |-> cmd_volume_set(clamped)]

\* variant: the new volume is stored before the receiver has reported it
volume_up_optimistic(s) ==
    LET new_volume == IF s._volume + 1 > MaxVolume THEN MaxVolume ELSE s._volume + 1
    IN [self |-> [s EXCEPT !._volume = new_volume],
        command |-> set_volume(s, new_volume).command]

volume_up(s) ==
    LET new_volume == IF s._volume + 1 > MaxVolume THEN MaxVolume ELSE s._volume + 1
    IN set_volume(s, new_volume)

\* variant: the decrement goes out as it is
volume_down_unclamped(s) == [self |-> s, command |-> cmd_volume_set(s._volume - 1)]

volume_down(s) ==
    LET new_volume == IF s._volume - 1 < 0 THEN 0 ELSE s._volume - 1
    IN set_volume(s, new_volume)

mute_on(s) == [self |-> s, command |-> cmd_mute_on]
mute_off(s) == [self |-> s, command |-> cmd_mute_off]
\* variant: the toggle sends the command of the state the cache already has
mute_toggle_inverted(s) == IF s._muted THEN mute_on(s) ELSE mute_off(s)

mute_toggle(s) == IF s._muted THEN mute_off(s) ELSE mute_on(s)
select_source(s, source) == [self |-> s, command |-> cmd_input_source_set(source)]
select_surround_mode(s, mode) == [self |-> s, command |-> cmd_surround_mode_set(mode)]

set_party_volume(s, volume) ==
    LET clamped == IF volume > MaxVolume THEN MaxVolume ELSE IF volume < 0 THEN 0 ELSE volume
    IN [self |-> s, command |-> cmd_party_volume_set(clamped)]

\* arguments of the volume setters: below, at and above both ends of 0..99,
\* and beyond a byte
VolumeArgs == {-1000, -1, 0, 1, 50, 98, 99, 100, 255, 256, 1000}
SourceArgs == {TV_ARC, BLUETOOTH}
ModeArgs == {1, NATIVE}

ControlCalls(s) ==
    {Called("turn_on", 0, turn_on(s)), Called("turn_off", 0, turn_off(s)),
     Called("volume_up", 0, volume_up(s)), Called("volume_down", 0, volume_down(s)),
     Called("mute_on", 0, mute_on(s)), Called("mute_off", 0, mute_off(s)),
     Called("mute_toggle", 0, mute_toggle(s))}
    \cup {Called("set_volume", v, set_volume(s, v)) : v \in VolumeArgs}
    \cup {Called("set_party_volume", v, set_party_volume(s, v)) : v \in VolumeArgs}
    \cup {Called("select_source", src, select_source(s, src)) : src \in SourceArgs}
    \cup {Called("select_surround_mode", m, select_surround_mode(s, m)) : m \in ModeArgs}
    \cup QueryCalls(s)

Control == \E c \in ControlCalls(self) : Invoke(c)

\* status frames that move the snapshot to both ends of the volume range and
\* beyond it, mute it and switch the power
StatusFrames ==
    {VolumeFrame(v) : v \in {0, 1, 98, MaxVolume, 100, 255}}
    \cup {Frame(MUTE, STATUS_UPDATE, <<b>>) : b \in {0, 1}}
    \cup {Frame(POWER, STATUS_UPDATE, <<1>>), Frame(INITIALIZATION, STATUS_UPDATE, <<1>>)}

ReadStatus ==
    /\ self._reader # None /\ link = "up"
    /\ \E chunk \in StatusFrames : ReadData(chunk)
    /\ event' = "data"
    /\ result' = "none" /\ call' = NoCall
    /\ handled' = NoCommand /\ status' = "none" /\ UNCHANGED attributes
    /\ UNCHANGED <<link, closing, hs, issued, codecVars, protoVars>>

NextControl ==
    \/ Control
    \/ ReadStatus
    \/ PeerClose
    \/ close_connection
    \/ wait_closed

\* a Ready session on which control methods are called while status frames
\* arrive, until the transport is closed
SpecControl == InitReady /\ [][NextControl]_vars

(***************************************************************************)
(* Entity adapters: handle_command of the media player, the remote and     *)
(* the input select.  A handler either replies with a status code at once, *)
(* or awaits one device method and replies from its result.                *)
(***************************************************************************)

\* display names by id
INPUT_SOURCE_NAMES ==
    <<"TV (ARC)", "HDMI 1", "HDMI 2", "HDMI 3", "HDMI 4", "HDMI 5", "HDMI 6",
      "Coaxial", "Optical", "Analog 1", "Analog 2", "Phono", "Bluetooth", "Network">>

SURROUND_MODE_NAMES ==
    <<"Dolby Surround", "DTS Neural:X", "Stereo 2.0", "Stereo 2.1", "All Stereo",
      "Native", "Dolby Pro Logic II">>

\* the loop over names.items(): the first id with that name, None without one
IdOf(names, value) ==
    IF value.kind = "str" /\ \E i \in DOMAIN names : names[i] = value.s
    THEN CHOOSE i \in DOMAIN names :
             names[i] = value.s /\ \A j \in 1..(i - 1) : names[j] # value.s
    ELSE None

\* Python: params and key in params
Has(params, key) == params.key = key

\* how a handle_command frame ends; depth counts the handle_command frames
\* on the stack when it does
Reply(code) == [kind |-> "reply", status |-> code, depth |-> 1]
Await(c, state) == [kind |-> "await", call |-> c, optimistic |-> state, depth |-> 1]
Raise == [kind |-> "raise", depth |-> 1]

\* return await self.handle_command(...): the result of the inner frame
Nested(plan) == [plan EXCEPT !.depth = @ + 1]

\* return StatusCodes.OK if success else StatusCodes.SERVER_ERROR
StatusOf(success) == IF success = "True" THEN "OK" ELSE "SERVER_ERROR"

\* except Exception: return StatusCodes.SERVER_ERROR
Caught(plan) == IF plan.kind = "raise" THEN Reply("SERVER_ERROR") ELSE plan

\* the try block of the media player's handle_command
media_player_commands(s, cmd_id, params) ==
    CASE cmd_id = "on" -> Await(Called("turn_on", 0, turn_on(s)), "ON")
      [] cmd_id = "off" -> Await(Called("turn_off", 0, turn_off(s)), "STANDBY")
      [] cmd_id = "volume" ->
           IF Has(params, "volume")
           THEN IF params.kind = "int"
                THEN Await(Called("set_volume", params.n, set_volume(s, params.n)), "")
                ELSE Raise     \* int() of a value that is no number
           ELSE Reply("BAD_REQUEST")
      [] cmd_id = "volume_up" -> Await(Called("volume_up", 0, volume_up(s)), "")
      [] cmd_id = "volume_down" -> Await(Called("volume_down", 0, volume_down(s)), "")
      [] cmd_id = "mute" -> Await(Called("mute_on", 0, mute_on(s)), "")
      [] cmd_id = "unmute" -> Await(Called("mute_off", 0, mute_off(s)), "")
      [] cmd_id = "mute_toggle" -> Await(Called("mute_toggle", 0, mute_toggle(s)), "")
      [] cmd_id = "select_source" ->
           IF Has(params, "source")
           THEN LET source_id == IdOf(INPUT_SOURCE_NAMES, params)
                IN IF source_id # None
                   THEN Await(Called("select_source", source_id, select_source(s, source_id)), "")
                   ELSE Reply("BAD_REQUEST")
           ELSE Reply("BAD_REQUEST")
      [] cmd_id = "select_sound_mode" ->
           IF Has(params, "mode")
           THEN LET mode_id == IdOf(SURROUND_MODE_NAMES, params)
                IN IF mode_id # None
                   THEN Await(Called("select_surround_mode", mode_id,
                                     select_surround_mode(s, mode_id)), "")
                   ELSE Reply("BAD_REQUEST")
           ELSE Reply("BAD_REQUEST")
      [] OTHER -> Reply("NOT_IMPLEMENTED")

\* variant: the handler has no except clause
JBLAVMediaPlayer_handle_command_without_except(s, cmd_id, params) ==
    media_player_commands(s, cmd_id, params)

JBLAVMediaPlayer_handle_command(s, cmd_id, params) ==
    Caught(media_player_commands(s, cmd_id, params))

\* variant: send_cmd looks its command up among the buttons only, so a
\* send_cmd inside a send_cmd is a command it does not know
JBLAVRemote_handle_command_buttons_only(s, cmd_id, params) ==
    LET button(c) ==
          CASE c \in {"on", "POWER_ON"} -> Await(Called("turn_on", 0, turn_on(s)), "")
            [] c \in {"off", "POWER_OFF"} -> Await(Called("turn_off", 0, turn_off(s)), "")
            [] c = "POWER_TOGGLE" ->
                 IF s._power_state
                 THEN Await(Called("turn_off", 0, turn_off(s)), "")
                 ELSE Await(Called("turn_on", 0, turn_on(s)), "")
            [] c = "VOLUME_UP" -> Await(Called("volume_up", 0, volume_up(s)), "")
            [] c = "VOLUME_DOWN" -> Await(Called("volume_down", 0, volume_down(s)), "")
            [] c = "MUTE_TOGGLE" -> Await(Called("mute_toggle", 0, mute_toggle(s)), "")
            [] c = "SURROUND_MODE_NATIVE" ->
                 Await(Called("select_surround_mode", 6, select_surround_mode(s, 6)), "")
            [] c = "SURROUND_MODE_DOLBY_SURROUND" ->
                 Await(Called("select_surround_mode", 1, select_surround_mode(s, 1)), "")
            [] OTHER -> Reply("NOT_IMPLEMENTED")
    IN Caught(
         IF cmd_id = "send_cmd"
         THEN IF Has(params, "command")
              THEN IF params.kind = "str" THEN Nested(button(params.s))
                   ELSE Reply("NOT_IMPLEMENTED")
              ELSE Reply("BAD_REQUEST")
         ELSE button(cmd_id))

\* the remote: power, volume and surround-mode buttons and the generic
\* send_cmd, which handles its command with no params
RECURSIVE JBLAVRemote_handle_command(_, _, _)
JBLAVRemote_handle_command(s, cmd_id, params) ==
    Caught(
      CASE cmd_id \in {"on", "POWER_ON"} -> Await(Called("turn_on", 0, turn_on(s)), "")
        [] cmd_id \in {"off", "POWER_OFF"} -> Await(Called("turn_off", 0, turn_off(s)), "")
        [] cmd_id = "POWER_TOGGLE" ->
             IF s._power_state
             THEN Await(Called("turn_off", 0, turn_off(s)), "")
             ELSE Await(Called("turn_on", 0, turn_on(s)), "")
        [] cmd_id = "VOLUME_UP" -> Await(Called("volume_up", 0, volume_up(s)), "")
        [] cmd_id = "VOLUME_DOWN" -> Await(Called("volume_down", 0, volume_down(s)), "")
        [] cmd_id = "MUTE_TOGGLE" -> Await(Called("mute_toggle", 0, mute_toggle(s)), "")
        [] cmd_id = "SURROUND_MODE_NATIVE" ->
             Await(Called("select_surround_mode", 6, select_surround_mode(s, 6)), "")
        [] cmd_id = "SURROUND_MODE_DOLBY_SURROUND" ->
             Await(Called("select_surround_mode", 1, select_surround_mode(s, 1)), "")
        [] cmd_id = "send_cmd" ->
             IF Has(params, "command")
             THEN IF params.kind = "str"
                  THEN Nested(JBLAVRemote_handle_command(s, params.s, NoParams))
                  ELSE Reply("NOT_IMPLEMENTED")   \* a command that equals no name
             ELSE Reply("BAD_REQUEST")
        [] OTHER -> Reply("NOT_IMPLEMENTED"))

\* variant: an unknown option selects the first source of the table
JBLAVInputSelect_handle_command_defaults(s, cmd_id, params) ==
    Caught(
      IF cmd_id = "select_option" /\ Has(params, "option")
      THEN LET source_id == IdOf(INPUT_SOURCE_NAMES, params)
               chosen == IF source_id # None THEN source_id ELSE 1
           IN Await(Called("select_source", chosen, select_source(s, chosen)), "")
      ELSE Reply("NOT_IMPLEMENTED"))

JBLAVInputSelect_handle_command(s, cmd_id, params) ==
    Caught(
      IF cmd_id = "select_option" /\ Has(params, "option")
      THEN LET source_id == IdOf(INPUT_SOURCE_NAMES, params)
           IN IF source_id # None
              THEN Await(Called("select_source", source_id, select_source(s, source_id)), "")
              ELSE Reply("BAD_REQUEST")
      ELSE Reply("NOT_IMPLEMENTED"))

JBLAVSurroundModeSelect_handle_command(s, cmd_id, params) ==
    Caught(
      IF cmd_id = "select_option" /\ Has(params, "option")
      THEN LET mode_id == IdOf(SURROUND_MODE_NAMES, params)
           IN IF mode_id # None
              THEN Await(Called("select_surround_mode", mode_id,
                                select_surround_mode(s, mode_id)), "")
              ELSE Reply("BAD_REQUEST")
      ELSE Reply("NOT_IMPLEMENTED"))

\* the cmd_handler registered by each entity
handle_command(entity, s, cmd_id, params) ==
    CASE entity = "media_player" -> JBLAVMediaPlayer_handle_command(s, cmd_id, params)
      [] entity = "remote" -> JBLAVRemote_handle_command(s, cmd_id, params)
      [] entity = "select" -> JBLAVInputSelect_handle_command(s, cmd_id, params)
      [] entity = "surround_mode_select" ->
           JBLAVSurroundModeSelect_handle_command(s, cmd_id, params)

Entities == {"media_player", "remote", "select", "surround_mode_select"}

CommandIds ==
    {"on", "off", "volume", "volume_up", "volume_down", "mute", "unmute", "mute_toggle",
     "select_source", "select_sound_mode", "select_option",
     "POWER_ON", "POWER_OFF", "POWER_TOGGLE", "VOLUME_UP", "VOLUME_DOWN", "MUTE_TOGGLE",
     "SURROUND_MODE_NATIVE", "SURROUND_MODE_DOLBY_SURROUND", "send_cmd", "play_pause"}

VolumeParams ==
    {Param("volume", "int", 50, ""), Param("volume", "int", 1000, ""),
     Param("volume", "str", 0, "loud")}
SourceParams == {Param("source", "str", 0, "HDMI 1"), Param("source", "str", 0, "Tuner")}
ModeParams == {Param("mode", "str", 0, "Native"), Param("mode", "str", 0, "Auro 3D")}
OptionParams ==
    {Param("option", "str", 0, "Bluetooth"), Param("option", "str", 0, "Native"),
     Param("option", "str", 0, "Tuner")}
CommandParams ==
    {Param("command", "str", 0, "VOLUME_UP"), Param("command", "str", 0, "send_cmd"),
     Param("command", "str", 0, "play_pause")}

\* every command id without params, and the commands that read a parameter
\* with an empty dict, with their own key and with a foreign key
Requests ==
    {<<cmd_id, NoParams>> : cmd_id \in CommandIds}
    \cup {<<cmd_id, EmptyParams>> :
             cmd_id \in {"volume", "select_source", "select_sound_mode", "select_option", "send_cmd"}}
    \cup {<<"volume", params>> : params \in VolumeParams \cup SourceParams}
    \cup {<<"select_source", params>> : params \in SourceParams \cup ModeParams}
    \cup {<<"select_sound_mode", params>> : params \in ModeParams \cup SourceParams}
    \cup {<<"select_option", params>> : params \in OptionParams \cup SourceParams}
    \cup {<<"send_cmd", params>> : params \in CommandParams \cup VolumeParams}

\* status frames that switch the power and the mute
EntityFrames ==
    {Frame(POWER, STATUS_UPDATE, <<b>>) : b \in {0, 1}}
    \cup {Frame(MUTE, STATUS_UPDATE, <<1>>)}

ReadEntityStatus ==
    /\ self._reader # None /\ link = "up"
    /\ \E chunk \in EntityFrames : ReadData(chunk)
    /\ event' = "data"
    /\ result' = "none" /\ call' = NoCall
    /\ handled' = NoCommand /\ status' = "none" /\ UNCHANGED attributes
    /\ UNCHANGED <<link, closing, hs, issued, codecVars, protoVars>>

\* one entity request, handled to its return
Command ==
    /\ \E entity \in Entities, req \in Requests :
         LET cmd_id == req[1]
             params == req[2]
             plan == handle_command(entity, self, cmd_id, params)
         IN /\ handled' = [entity |-> entity, cmd_id |-> cmd_id, params |-> params,
                            depth |-> plan.depth]
            /\ IF plan.kind = "await"
               THEN \E ok \in DrainOutcomes(link) :
                      LET success == Returned(plan.call.self, ok)
                      IN /\ sent' = _send_command_raw(plan.call.self, plan.call.command)
                         /\ link' = LinkAfterWrite(plan.call.self, link, ok)
                         /\ result' = success
                         /\ status' = StatusOf(success)
                         /\ call' = [name |-> plan.call.name, arg |-> plan.call.arg]
                         /\ attributes' = IF success = "True" /\ plan.optimistic # ""
                                          THEN [attributes EXCEPT !.STATE = plan.optimistic]
                                          ELSE attributes
               ELSE /\ sent' = <<>> /\ result' = "none" /\ call' = NoCall
                    /\ status' = IF plan.kind = "raise" THEN "raised" ELSE plan.status
                    /\ UNCHANGED <<link, attributes>>
    /\ event' = "command"
    /\ lastRead' = NoRead /\ drained' = <<>>
    /\ UNCHANGED <<self, pc, buffer, closing, hs, issued, codecVars, protoVars>>

NextCommand ==
    \/ Command
    \/ ReadEntityStatus
    \/ PeerClose
    \/ close_connection
    \/ wait_closed

\* a Ready session whose entities receive requests from the hub while status
\* frames arrive, until the transport is closed
SpecCommand == InitReady /\ [][NextCommand]_vars

----------------------------------------------------------------------------
(* C1 *)

\* what reading the volume frame of v into an empty pending buffer does
VolumeDelivered(v) ==
    /\ self' = [self EXCEPT !._volume = v]
    /\ buffer' = <<>>
    /\ Notifications(drained') = IF v # self._volume THEN 1 ELSE 0
    /\ lastRead = VolumeFrame(v) =>
          /\ self' = self
          /\ Notifications(drained') = 0

\* the payload byte 0x0D ends the frame early: nothing is applied and the
\* real terminator stays behind in the buffer
VolumeCutShort ==
    /\ self' = self
    /\ Notifications(drained') = 0
    /\ buffer' = <<END>>

\* C1 (as amended): for every volume v in 0..99 other than 13 (0x0D), reading
\* 02 23 06 00 01 v 0D in one read into a Ready session with an empty pending
\* buffer sets the volume to v and notifies exactly when v differs from the
\* previous volume, and reading the same bytes again changes nothing and
\* notifies nothing; for v = 13 the frame is cut at the payload byte, the
\* volume stays as it was, nothing is notified and one byte 0D stays pending.
C1_VolumeFrameSetsVolume ==
    [][\A v \in 0..MaxVolume :
         (pc = "Ready" /\ buffer = <<>> /\ lastRead' = VolumeFrame(v)) =>
             IF v = END THEN VolumeCutShort ELSE VolumeDelivered(v)]_vars

\* C1 as stated: every v in 0..99, 13 included
C1_Original ==
    [][\A v \in 0..MaxVolume :
         (pc = "Ready" /\ buffer = <<>> /\ lastRead' = VolumeFrame(v)) =>
             VolumeDelivered(v)]_vars

C1_Witness ==
    /\ lastRead = VolumeFrame(55)
    /\ buffer = <<>>
    /\ self._volume = 55
    /\ drained = <<[message |-> VolumeFrame(55), changed |-> {"_volume"}, notified |-> 1]>>

----------------------------------------------------------------------------
(* C6 *)

\* C6 (as amended): for every known source id in 0x01..0x0E other than
\* Bluetooth 0x0D, reading 02 23 05 00 01 s 0D in one read into a Ready session
\* with an empty pending buffer sets the source to s and leaves the pending
\* buffer empty; for Bluetooth (0x0D) the frame is cut at the payload byte, the
\* source stays as it was and one byte 0D stays pending.
C6_SourceFrameSetsSource ==
    [][\A src \in 1..LastSource :
         (pc = "Ready" /\ buffer = <<>> /\ lastRead' = SourceFrame(src)) =>
             IF src = BLUETOOTH
             THEN self' = self /\ buffer' = <<END>>
             ELSE self' = [self EXCEPT !._source = src] /\ buffer' = <<>>]_vars

\* C6 as stated: every source id in 0x01..0x0E, Bluetooth included
C6_Original ==
    [][\A src \in 1..LastSource :
         (pc = "Ready" /\ buffer = <<>> /\ lastRead' = SourceFrame(src)) =>
             self'._source = src /\ buffer' = <<>>]_vars

C6_Witness ==
    /\ lastRead = SourceFrame(LastSource)
    /\ buffer = <<>>
    /\ self._source = LastSource
    /\ Messages(drained) = <<SourceFrame(LastSource)>>

----------------------------------------------------------------------------
(* Reconciler runs: frames handed to _process_response one at a time       *)

ApplyOpcodes == {POWER, INPUT_SOURCE, VOLUME, MUTE, SURROUND_MODE, INITIALIZATION,
                 HEARTBEAT, ROOM_EQ}
ApplyCodes == {STATUS_UPDATE, 1}
ApplyPayloads == {<<>>, <<0>>, <<1>>}

\* well-formed frames, and frames the decoder has to cope with: a result code
\* and a payload equal to the terminator, a second payload byte, a declared
\* length larger and smaller than the payload, a cut frame, a frame without
\* terminator
ApplyMessages ==
    {Frame(op, rc, pl) : op \in ApplyOpcodes, rc \in ApplyCodes, pl \in ApplyPayloads}
    \cup {Frame(VOLUME, END, <<1>>), Frame(VOLUME, STATUS_UPDATE, <<END>>),
          Frame(SURROUND_MODE, STATUS_UPDATE, <<1, 0>>),
          <<2, 35, VOLUME, STATUS_UPDATE, 2, 1, END>>,
          <<2, 35, VOLUME, STATUS_UPDATE, 1, 1, 0, END>>,
          <<2, 35, END>>,
          <<2, 35, MUTE, STATUS_UPDATE, 1, 1, 0>>}

ProcessResponse ==
    /\ pc = "Ready"
    /\ \E message \in ApplyMessages :
         LET r == _process_response(self, message)
         IN /\ self' = r.self
            /\ drained' = <<[message |-> message,
                             changed |-> Changed(self, r.self),
                             notified |-> r.notified]>>
    /\ UNCHANGED <<pc, buffer, lastRead, sent, codecVars, protoVars, taskVars>>

SpecApply == InitReady /\ [][ProcessResponse]_vars

\* the cached value a success frame of a mapped opcode carries, as the
\* protocol defines it (opcode -> attribute, payload[0] -> value)
MappedAttribute ==
    [op \in {POWER, INPUT_SOURCE, VOLUME, MUTE, SURROUND_MODE, INITIALIZATION} |->
        CASE op = POWER -> "_power_state"
          [] op = INPUT_SOURCE -> "_source"
          [] op = VOLUME -> "_volume"
          [] op = MUTE -> "_muted"
          [] op = SURROUND_MODE -> "_surround_mode"
          [] op = INITIALIZATION -> "_model"]

Decoded(op, b) == IF op \in {POWER, MUTE} THEN b = 1 ELSE b

\* message has the layout of an inbound frame: marker, opcode, result code,
\* length byte, ..., terminator
IsFrame(m) == Len(m) >= 5 /\ m[1] = 2 /\ m[2] = 35 /\ m[Len(m)] = END

\* a success frame of a mapped opcode that holds the payload bytes it declares
\* (at least one) and whose first payload byte decodes to a value other than
\* the cached one
CarriesChange(s, m) ==
    /\ IsFrame(m)
    /\ m[4] = STATUS_UPDATE
    /\ m[3] \in DOMAIN MappedAttribute
    /\ m[5] > 0 /\ Len(m) >= 6 + m[5]
    /\ s[MappedAttribute[m[3]]] # Decoded(m[3], m[6])

----------------------------------------------------------------------------
(* C3 *)

----------------------------------------------------------------------------
(* C4 *)

\* C4: a frame whose resultCode is not 0x00 leaves power, volume, muted,
\* source, surround mode and model unchanged and emits no notification, for
\* every opcode and payload; in particular 02 23 07 01 01 01 0D leaves mute
\* untouched.
C4_ErrorFrameChangesNothing ==
    \A i \in 1..Len(drained) :
        (IsFrame(drained[i].message) /\ drained[i].message[4] # STATUS_UPDATE) =>
            /\ drained[i].changed = {}
            /\ drained[i].notified = 0

\* the error frame of the scenario met a session that is not muted
C4_Witness ==
    /\ drained = <<[message |-> <<2, 35, 7, 1, 1, 1, 13>>, changed |-> {}, notified |-> 0]>>
    /\ ~self._muted

----------------------------------------------------------------------------
(* C5 *)

\* C5: every success frame applied emits exactly one notification per
\* attribute whose decoded value differs from the snapshot, and none when the
\* decoded value equals the snapshot.
C5_OneNotificationPerChange ==
    \A i \in 1..Len(drained) :
        (IsFrame(drained[i].message) /\ drained[i].message[4] = STATUS_UPDATE) =>
            drained[i].notified = Cardinality(drained[i].changed)

----------------------------------------------------------------------------
(* Codec runs: one inbound byte stream, read in pieces of any size, each   *)
(* piece extended to the buffer and drained as maintain_connection does    *)

MaxStream == 6
CodecBytes == {2, 35, END, 0}

SeqUpTo(S, n) == UNION {[1..k -> S] : k \in 0..n}

\* frames that respect the protocol's assumption: no byte before the
\* terminator equals 0x0D; one has the marker bytes in its payload
CodecFrames ==
    {Frame(op, STATUS_UPDATE, pl) : op \in {POWER, VOLUME, MUTE}, pl \in {<<>>, <<1>>, <<2, 35>>}}

GarbageThenFrame == {g \o f : g \in Garbage, f \in {Frame(VOLUME, STATUS_UPDATE, <<1>>),
                                                     Frame(POWER, STATUS_UPDATE, <<>>)}}

\* a frame whose payload keeps arriving: a prefix, the marker and a run of
\* bytes without terminator
LongPartials ==
    {p \o <<2, 35, VOLUME, STATUS_UPDATE>> \o [i \in 1..GarbageLen |-> 1] :
        p \in {<<>>, <<0, END, 0>>}}

\* well-formed frames with the terminator value in the header: opcode roomEq,
\* result code 0x0D, a payload of 13 bytes; and one without it
HeaderFrames ==
    {Frame(ROOM_EQ, STATUS_UPDATE, <<1>>), Frame(VOLUME, END, <<1>>),
     Frame(VOLUME, STATUS_UPDATE, [i \in 1..13 |-> 1]),
     Frame(255, 255, <<255>>)}

\* frames back to back
BackToBack ==
    {Frame(VOLUME, STATUS_UPDATE, <<1>>) \o Frame(MUTE, STATUS_UPDATE, <<1>>),
     Frame(POWER, STATUS_UPDATE, <<1>>) \o Frame(VOLUME, STATUS_UPDATE, <<2>>)
        \o Frame(VOLUME, STATUS_UPDATE, <<3>>)}

Streams ==
    SeqUpTo(CodecBytes, MaxStream) \cup CodecFrames \cup GarbageThenFrame
    \cup LongPartials \cup HeaderFrames \cup BackToBack

MaxFrameCut == 8

\* where a read may end: anywhere in a short stream; after 2 and 5 bytes and
\* at the end of a frame with a long payload; in a long stream at the
\* garbage threshold, one byte after it, at the end of the run and anywhere
\* after it
CutPoints(st) ==
    IF Len(st) <= MaxFrameCut THEN 1..Len(st)
    ELSE IF Len(st) <= GarbageLimit THEN {2, 5, Len(st)}
    ELSE {GarbageLimit, GarbageLimit + 1} \cup (GarbageLen..Len(st))

InitCodec ==
    /\ self = ReadySelf
    /\ pc = "Ready"
    /\ buffer = <<>>
    /\ lastRead = NoRead
    /\ drained = <<>>
    /\ sent = <<cmd_query(SURROUND_MODE)>>
    /\ stream \in Streams
    /\ pos = 0 /\ cuts = <<>> /\ outAll = <<>>
    /\ IdleProto
    /\ ReadyTasks

Deliver ==
    /\ \E end \in CutPoints(stream) :
         /\ end > pos
         /\ ReadData(SubSeq(stream, pos + 1, end))
         /\ pos' = end
         /\ cuts' = Append(cuts, end - pos)
    /\ outAll' = outAll \o Messages(drained')
    /\ UNCHANGED <<stream, protoVars, taskVars>>

SpecCodec == InitCodec /\ [][Deliver]_vars

----------------------------------------------------------------------------
(* C2 *)

RECURSIVE Flatten(_)
Flatten(frames) == IF frames = <<>> THEN <<>> ELSE Head(frames) \o Flatten(Tail(frames))

HasMarker(b) == start_idx(b) # NotFound
StartsWithMarker(b) == Len(b) >= 2 /\ b[1] = 2 /\ b[2] = 35

\* a genuine trailing partial frame: starts with 02 23, no terminator yet
PartialFrame(b) == StartsWithMarker(b) /\ index(b, END) = NotFound

\* bytes = garbage, frame, garbage, frame, ..., garbage, rest: the frames in
\* order, every garbage run free of the marker, and garbage in front of rest
\* only where the codec discards it (before a marker that opens rest, or a
\* whole marker-less buffer of more than 100 bytes)
RECURSIVE Removed(_, _, _)
Removed(bytes, frames, rest) ==
    IF frames = <<>>
    THEN \E j \in 0..Len(bytes) :
            /\ SubSeq(bytes, j + 1, Len(bytes)) = rest
            /\ ~HasMarker(SubSeq(bytes, 1, j))
            /\ j > 0 => \/ StartsWithMarker(rest)
                        \/ rest = <<>> /\ j > GarbageLimit
    ELSE \E j \in 0..(Len(bytes) - Len(Head(frames))) :
            /\ SubSeq(bytes, j + 1, j + Len(Head(frames))) = Head(frames)
            /\ ~HasMarker(SubSeq(bytes, 1, j))
            /\ Removed(SubSeq(bytes, j + Len(Head(frames)) + 1, Len(bytes)), Tail(frames), rest)

\* what a drain may leave behind
Residue(b) ==
    \/ Len(b) < MinMessage
    \/ ~HasMarker(b) /\ Len(b) <= GarbageLimit
    \/ PartialFrame(b)

\* C2 (as amended): for every byte sequence appended to the pending buffer,
\* draining with _extract_message until it returns None removes the bytes of
\* the frames it returned together with the garbage it discards (marker-free
\* bytes in front of a marker, or a whole marker-less buffer of more than 100
\* bytes) and nothing else; what remains is shorter than 5 bytes, or is
\* marker-less and at most 100 bytes long, or is a trailing partial frame
\* (starts with 02 23, no terminator yet).
C2_DrainRemovesFramesAndGarbage ==
    [][lastRead' # NoRead =>
         /\ Removed(buffer \o lastRead', Messages(drained'), buffer')
         /\ Residue(buffer')]_vars

\* C2 as stated: only the bytes of the returned frames are removed, and the
\* rest is empty or a partial frame
C2_Original ==
    [][lastRead' # NoRead =>
         /\ buffer \o lastRead' = Flatten(Messages(drained')) \o buffer'
         /\ (buffer' = <<>> \/ PartialFrame(buffer'))]_vars

\* one read brought garbage, a frame and the start of the next frame
C2_Witness ==
    /\ stream = <<0, 2, 35, END, 2, 35>>
    /\ cuts = <<6>>
    /\ Messages(drained) = << <<2, 35, END>> >>
    /\ buffer = <<2, 35>>

----------------------------------------------------------------------------
(* C7 *)

\* a frame with length byte equal to its payload length and, as the protocol
\* assumes, no byte equal to the terminator in front of the terminator
ValidFrame(m) ==
    /\ Len(m) >= 6
    /\ m = Frame(m[3], m[4], SubSeq(m, 6, Len(m) - 1))
    /\ \A i \in 1..(Len(m) - 1) : m[i] # END

\* C7: a valid frame (no 0x0D before its terminator) delivered to an empty
\* pending buffer in three appends of 2 bytes, 3 bytes and the remainder,
\* drained after each, yields no frame after the first and the second append
\* and exactly one frame after the third, and that frame is byte for byte the
\* one a single append of the same bytes yields.
C7_SplitDelivery ==
    ValidFrame(stream) =>
        /\ cuts = <<2>> => drained = <<>> /\ outAll = <<>>
        /\ cuts = <<2, 3>> => drained = <<>> /\ outAll = <<>>
        /\ cuts = <<2, 3, Len(stream) - 5>> =>
              /\ Messages(drained) = <<stream>>
              /\ outAll = <<stream>>
              /\ buffer = <<>>
        /\ cuts = <<Len(stream)>> => outAll = <<stream>>

C7_Witness ==
    /\ stream = Frame(VOLUME, STATUS_UPDATE, <<1>>)
    /\ cuts = <<2, 3, 2>>
    /\ outAll = <<stream>>
    /\ self._volume = 1

----------------------------------------------------------------------------
(* C8 *)

\* C8: when 150 bytes without the marker 02 23 are appended to an empty
\* buffer the drain returns no frame and leaves the buffer empty; when a valid
\* frame is appended next, the drain returns exactly that frame.
C8_GarbageResync ==
    stream \in GarbageThenFrame =>
        /\ cuts = <<GarbageLen>> => drained = <<>> /\ buffer = <<>>
        /\ cuts = <<GarbageLen, Len(stream) - GarbageLen>> =>
              /\ Messages(drained) = <<SubSeq(stream, GarbageLen + 1, Len(stream))>>
              /\ buffer = <<>>

C8_Witness ==
    /\ stream \in GarbageThenFrame
    /\ cuts = <<GarbageLen, 7>>
    /\ Messages(drained) = <<Frame(VOLUME, STATUS_UPDATE, <<1>>)>>
    /\ self._volume = 1

----------------------------------------------------------------------------
(* Decoder runs: parse_response on a given frame, and build_command        *)
(* followed by parse_response of the reframed command                      *)

MaxFrame == 6
MaxPayload == 2
MaxPayloadLen == 255
DecodeBytes == {0, 1, 2, 35, END}
PayloadBytes == {0, 1, 2, 35, END, 255}

LongPayload == [i \in 1..MaxPayloadLen |-> i]

DecodeRequests ==
    {[kind |-> "decode", frame |-> m] : m \in SeqUpTo(DecodeBytes, MaxFrame)}
    \cup {[kind |-> "decode", frame |-> m] :
             m \in {<<2, 35, VOLUME, STATUS_UPDATE, 2, 55, END>>,
                    <<2, 35, VOLUME, STATUS_UPDATE, 1, 55, 0, END>>,
                    <<2, 35, VOLUME, STATUS_UPDATE, 1, 55, END>>}}

EncodeRequests ==
    {[kind |-> "encode", cmd_id |-> op, rsp_code |-> rc, data |-> pl] :
        op \in Byte, rc \in {STATUS_UPDATE, 1, END},
        pl \in SeqUpTo(PayloadBytes, MaxPayload) \cup {LongPayload}}

\* arguments build_command cannot put into a frame: an opcode or a payload
\* value that is not a byte, and a payload one longer than the length byte holds
TooLongPayload == [i \in 1..(MaxPayloadLen + 1) |-> 0]
OutOfRange == {-1, 256}
BadEncodeRequests ==
    {[kind |-> "encode", cmd_id |-> op, rsp_code |-> STATUS_UPDATE, data |-> pl] :
        op \in OutOfRange, pl \in {<<>>, <<1>>}}
    \cup {[kind |-> "encode", cmd_id |-> op, rsp_code |-> STATUS_UPDATE, data |-> pl] :
        op \in {VOLUME, 255},
        pl \in {<<256>>, <<-1>>, <<0, 256>>, <<-1, 0>>, TooLongPayload}}

InitProto ==
    /\ self = InitSelf
    /\ pc = "Disconnected"
    /\ buffer = <<>>
    /\ lastRead = NoRead
    /\ drained = <<>>
    /\ sent = <<>>
    /\ IdleCodec
    /\ request \in DecodeRequests \cup EncodeRequests \cup BadEncodeRequests
    /\ encoded = <<>>
    /\ parsed = NotParsed
    /\ IdleTasks

Encode ==
    /\ request.kind = "encode"
    /\ encoded = <<>>
    /\ encoded' = build_command(request.cmd_id, request.data)
    /\ UNCHANGED <<sessionVars, codecVars, request, parsed>>

\* the command with a synthetic marker byte in front and a result code
\* after the opcode
Reframed(command, rc) == <<2>> \o SubSeq(command, 1, 2) \o <<rc>> \o SubSeq(command, 3, Len(command))

Decode ==
    /\ parsed = NotParsed
    /\ \/ /\ request.kind = "decode"
          /\ parsed' = parse_response(request.frame)
       \/ /\ request.kind = "encode"
          /\ encoded # <<>> /\ encoded # ValueError
          /\ parsed' = parse_response(Reframed(encoded, request.rsp_code))
    /\ UNCHANGED <<sessionVars, codecVars, request, encoded>>

NextProto == Encode \/ Decode

SpecProto == InitProto /\ [][NextProto]_vars

----------------------------------------------------------------------------
(* C9 *)

\* the four conditions under which the decoder is to report Malformed
Malformed(m) ==
    \/ Len(m) < 5
    \/ SubSeq(m, 1, 2) # <<2, 35>>
    \/ m[Len(m)] # END
    \/ m[5] > Len(m) - 6

\* C9: decode returns None for every frame that is shorter than 5 bytes, does
\* not start with 02 23, does not end with 0D, or declares more payload bytes
\* than are present before the terminator; otherwise it returns the opcode,
\* the resultCode and the payload of the declared length.
C9_DecodeMalformed ==
    (request.kind = "decode" /\ parsed # NotParsed) =>
        IF Malformed(request.frame)
        THEN parsed.is_none
        ELSE parsed = [is_none |-> FALSE,
                       cmd_id |-> request.frame[3],
                       rsp_code |-> request.frame[4],
                       data |-> SubSeq(request.frame, 6, 5 + request.frame[5])]

----------------------------------------------------------------------------
(* C10 *)

\* C10: for every opcode in 0..255 and every payload of bytes,
\* encode(opcode, payload) with 0x02 put in front and a resultCode inserted
\* after the opcode decodes to the same opcode and the same payload.
C10_RoundTrip ==
    (request.kind = "encode" /\ parsed # NotParsed) =>
        /\ ~parsed.is_none
        /\ parsed.cmd_id = request.cmd_id
        /\ parsed.rsp_code = request.rsp_code
        /\ parsed.data = request.data

C10_Witness ==
    /\ request = [kind |-> "encode", cmd_id |-> ROOM_EQ, rsp_code |-> STATUS_UPDATE, data |-> <<END, 255>>]
    /\ encoded = <<35, 13, 2, 13, 255, 13>>
    /\ parsed = [is_none |-> FALSE, cmd_id |-> ROOM_EQ, rsp_code |-> STATUS_UPDATE, data |-> <<END, 255>>]
----------------------------------------------------------------------------
(* C11 *)

InByteRange(r) ==
    /\ r.cmd_id \in 0..255
    /\ Len(r.data) \in 0..255
    /\ \A i \in 1..Len(r.data) : r.data[i] \in 0..255

\* C11: encode(opcode, payload) returns exactly 23, opcode, len(payload), the
\* payload, 0D when the opcode, every payload byte and the payload length
\* are in 0..255, and fails without producing a frame when one of them is not.
C11_EncodeExact ==
    (request.kind = "encode" /\ encoded # <<>>) =>
        IF InByteRange(request)
        THEN /\ Len(encoded) = Len(request.data) + 4
             /\ encoded[1] = 35
             /\ encoded[2] = request.cmd_id
             /\ encoded[3] = Len(request.data)
             /\ SubSeq(encoded, 4, Len(encoded) - 1) = request.data
             /\ encoded[Len(encoded)] = 13
        ELSE encoded = ValueError

C11_Witness ==
    /\ request.kind = "encode"
    /\ request.cmd_id = 255
    /\ request.data = <<255, 0>>
    /\ encoded = <<35, 255, 2, 255, 0, 13>>

----------------------------------------------------------------------------
(* C12 *)

\* the last step was a read that found the transport closed by the peer,
\* failed or closed
ReadFaulted == event \in {"read_eof", "read_error", "read_closed"}

\* the last step was a handshake or heartbeat write on which the socket failed
WriteFaulted == event \in {"handshake", "timeout"} /\ sent # <<>> /\ link = "error"

\* C12: every transport-level fault met in maintain_connection (a socket error
\* on a read, a socket error on a handshake or heartbeat write, an empty read)
\* ends the loop: after the step that meets it the loop is over.
C12_FaultEndsLoop == (ReadFaulted \/ WriteFaulted) => pc = "Ended"

\* the part of C12 about reads
C12_ReadFaultEndsLoop == ReadFaulted => pc = "Ended"

----------------------------------------------------------------------------
(* C13 *)

\* the last read extracted a frame the decoder rejects
ReadMalformed ==
    event = "data" /\ \E i \in 1..Len(drained) : parse_response(drained[i].message).is_none

\* every complete frame of the pending buffer has been processed and the
\* loop is still reading
LoopContinues == pc = "Ready" /\ _extract_message(buffer).is_none

\* C13: an error while decoding or applying one frame (a malformed frame, an
\* exception raised while handling or notifying for it) discards only that
\* frame: the frames behind it in the pending buffer are processed and the
\* loop goes on reading.
C13_FrameErrorIsNotFatal == (ReadMalformed \/ event = "raised") => LoopContinues

\* the part of C13 about malformed frames
C13_MalformedIsNotFatal == ReadMalformed => LoopContinues

\* a malformed frame followed by a volume frame in one read: both extracted,
\* the second applied
C13_MalformedThenApplied ==
    /\ ReadMalformed
    /\ Len(drained) = 2
    /\ drained[2].changed = {"_volume"}
    /\ pc = "Ready"

----------------------------------------------------------------------------
(* C14 *)

\* C14: a read timeout in Ready is not a fault: the step that handles it
\* writes exactly one command, the heartbeat, leaves the snapshot and the
\* pending buffer alone and stays in Ready with the reader in place, so the
\* next read (and the next timeout) follows.
C14_TimeoutSendsHeartbeat ==
    [][event' = "timeout" =>
          /\ pc = "Ready"
          /\ sent' = <<build_command(HEARTBEAT, <<>>)>>
          /\ pc' = "Ready" /\ self'._reader # None
          /\ self' = self /\ buffer' = buffer]_vars

\* a timeout handled on a transport that is up: one heartbeat, still Ready
C14_Witness ==
    /\ event = "timeout"
    /\ sent = <<<<35, 81, 0, 13>>>>
    /\ pc = "Ready" /\ link = "up"
    /\ hs = Len(HandshakeCommands)

----------------------------------------------------------------------------
(* C15 *)

\* initialization, then the queries for power, volume, mute, source and
\* surround mode, as they appear on the wire
FixedHandshake ==
    <<<<35, 80, 1, 240, 13>>, <<35, 0, 1, 240, 13>>, <<35, 6, 1, 240, 13>>,
      <<35, 7, 1, 240, 13>>, <<35, 5, 1, 240, 13>>, <<35, 8, 1, 240, 13>>>>

\* C15: a maintain cycle writes the initialization command first and then the
\* queries for power, volume, mute, source and surround mode in that order,
\* one write per step (the sleep after each write ends the step); with the
\* writer in place every step so far has written its command, and no byte is
\* read or reconciled before all six have been issued.
C15_HandshakeOrder ==
    /\ hs \in 0..6 /\ Len(issued) <= hs
    /\ issued = SubSeq(FixedHandshake, 1, Len(issued))
    /\ (pc \in {"Handshaking", "Ready"} /\ self._writer # None) => Len(issued) = hs
    /\ event = "handshake" => (Len(sent) <= 1 /\ (self._writer # None => sent = <<FixedHandshake[hs]>>))
    /\ pc = "Ready" => hs = 6
    /\ pc \in {"Established", "Handshaking"} => (hs < 6 /\ lastRead = NoRead /\ drained = <<>>)
    /\ event \in {"data", "raised"} => hs = 6

\* the handshake is through: six writes in the fixed order, nothing read yet
C15_Witness ==
    /\ pc = "Ready" /\ event = "handshake"
    /\ issued = FixedHandshake
    /\ sent = <<<<35, 8, 1, 240, 13>>>>
    /\ lastRead = NoRead /\ self = ReadySelf

----------------------------------------------------------------------------
(* C16 *)

\* a close_connection call on a session whose handles are already released
\* leaves the object as it is
CloseAgain == (closing = "idle" /\ self._writer = None /\ event' = "closed") => self' = self

\* C16: close_connection is idempotent, and once close has been called on a
\* transport (also while close_connection is still awaiting wait_closed) no
\* control operation writes command bytes to it.
C16_NoWriteAfterClose ==
    [][CloseAgain /\ ((link = "closed" /\ event' = "control") => sent' = <<>>)]_vars

\* the part of C16 about repeated calls
C16_CloseIsIdempotent == [][CloseAgain]_vars

----------------------------------------------------------------------------
(* C17 *)

\* a control operation that fails without touching anything
FailsCleanly ==
    /\ result' = "False" /\ sent' = <<>>
    /\ self' = self /\ pc' = pc /\ buffer' = buffer /\ link' = link /\ hs' = hs

\* before the first establish and after close_connection the handles are
\* released
NoWriter == self._writer = None

\* the receiver has closed the connection
PeerClosed == link = "eof"

\* C17: a control operation invoked when there is no live transport (before
\* the first successful establish, after close_connection, after the peer
\* closed the connection) returns False, writes nothing and changes neither
\* the snapshot nor the state of the session loop.
C17_NoTransportFails ==
    [][(event' = "control" /\ (NoWriter \/ PeerClosed)) => FailsCleanly]_vars

\* the part of C17 about released handles
C17_NoWriterFails == [][(event' = "control" /\ NoWriter) => FailsCleanly]_vars

----------------------------------------------------------------------------
(* C18 *)

\* the cached attributes of the object
Snapshot(s) == [a \in Attributes |-> s[a]]

\* C18: when the connection closes (close_connection has run, or the read
\* loop has ended) the snapshot is back at the defaults of __init__, so
\* nothing learned from the frames of one session is visible after the close
\* or in the next session before its first read.
C18_SnapshotResetOnClose ==
    (event = "closed" \/ pc \in {"Ended", "Disconnected", "Established", "Handshaking"})
        => Snapshot(self) = Snapshot(InitSelf)

----------------------------------------------------------------------------
(* C19 *)

\* C19: no partial framing state survives a cycle: whatever sequence of
\* establish / maintain / close calls came before, the read loop of a maintain
\* cycle is entered with an empty pending buffer, and until the first read of
\* the cycle nothing is put into it, so bytes left over when a cycle ended
\* are never combined with bytes of a later cycle.
C19_CycleStartsEmpty ==
    [][/\ (pc # "Ready" /\ pc' = "Ready") => buffer' = <<>>
       /\ (pc = "Ready" /\ event' # "data" /\ event' # "raised") => buffer' = buffer
       /\ (pc = "Ready" /\ buffer = <<>> /\ event' = "data")
             => buffer' = Drain(lastRead', self, <<>>).buffer]_vars

\* an incomplete frame is left behind when a cycle ends and is still in
\* memory while the next cycle does its handshake
C19_LeftoverBytes ==
    /\ pc = "Handshaking"
    /\ buffer = <<2, 35>>
    /\ link = "up"

\* a later cycle (the volume was learned in an earlier one) has done its
\* handshake: its read loop starts on an empty buffer
C19_Witness ==
    /\ pc = "Ready" /\ event = "handshake"
    /\ self._volume = 1 /\ self._model = 1
    /\ buffer = <<>>

----------------------------------------------------------------------------
(* C20 *)

\* one complete outbound frame: 23, opcode, length, payload of that length, 0D
IsCommandFrame(w) ==
    /\ Len(w) >= 4
    /\ w[1] = 35
    /\ w[3] = Len(w) - 4
    /\ w[Len(w)] = 13

\* C20: with control operations invoked at any point between the steps of
\* the session loop (handshake writes, heartbeat writes) and of
\* close_connection, every write that reaches the socket is one complete
\* command frame, and a step (the code between two suspension points) makes
\* at most one write: the bytes of two frames are never interleaved.
C20_WritesAreWholeFrames ==
    /\ Len(sent) <= 1
    /\ \A i \in 1..Len(sent) : IsCommandFrame(sent[i])

\* a control operation writes its command between two handshake writes
C20_Witness ==
    /\ pc = "Handshaking" /\ hs = 3
    /\ event = "control"
    /\ sent = <<<<35, 17, 1, 240, 13>>>>
    /\ issued = SubSeq(FixedHandshake, 1, 3)
    /\ link = "up"

----------------------------------------------------------------------------
(* C21 *)

\* C21: a control operation (turn_on/off, set_volume, volume_up/down,
\* mute_on/off/toggle, select_source, select_surround_mode, the queries)
\* leaves power, volume, muted, source, surround mode and model as they are,
\* whether its write succeeds, fails or is not attempted.
C21_ControlLeavesSnapshot ==
    [][event' = "control" => Snapshot(self') = Snapshot(self)]_vars

\* volume_up on a session at volume 98: the command carries 99, the write
\* succeeded, the cached volume is still 98
C21_Witness ==
    /\ event = "control" /\ call.name = "volume_up"
    /\ sent = <<<<35, 6, 1, 99, 13>>>>
    /\ result = "True"
    /\ self._volume = 98

----------------------------------------------------------------------------
(* C22 *)

\* C22: no inbound frame, whatever its opcode, resultCode or payload, changes
\* what the connectivity of the session is read from: the reader and writer
\* handles, the initialized flag, the transport and the position of the loop
\* stay as they are when a frame is applied.
C22_FramesLeaveConnectivity ==
    [][/\ self'._reader = self._reader
       /\ self'._writer = self._writer
       /\ self'._initialized = self._initialized
       /\ link' = link /\ pc' = pc /\ closing' = closing]_vars

\* a power-off report has been applied: the power changed, the session is
\* still connected
C22_Witness ==
    /\ Len(drained) = 1
    /\ drained[1].message = <<2, 35, 0, 0, 1, 0, 13>>
    /\ drained[1].changed = {"_power_state"}
    /\ self._initialized /\ self._writer = Handle /\ link = "up"

----------------------------------------------------------------------------
(* C23 *)

MappedOpcodes == {0, 5, 6, 7, 8, 80}

\* C23: a success frame whose opcode is none of power 0x00, inputSource 0x05,
\* volume 0x06, mute 0x07, surroundMode 0x08, initialization 0x50 is accepted:
\* the snapshot stays as it is, nothing is notified and the session stays
\* in Ready.
C23_UnmappedOpcodeIgnored ==
    \A i \in 1..Len(drained) :
        LET m == drained[i].message
        IN (IsFrame(m) /\ m[4] = 0 /\ m[3] \notin MappedOpcodes) =>
              /\ drained[i].changed = {}
              /\ drained[i].notified = 0
              /\ pc = "Ready"

\* a roomEq report with a payload met a session whose volume is 1
C23_Witness ==
    /\ drained = <<[message |-> <<2, 35, 13, 0, 1, 1, 13>>, changed |-> {}, notified |-> 0]>>
    /\ self._volume = 1

----------------------------------------------------------------------------
(* C24 *)

\* C24: a success frame of a mapped opcode whose length byte is 0 leaves the
\* snapshot unchanged and emits nothing; the attribute keeps its value, it is
\* not put back to a default.
C24_EmptyPayloadIsNoUpdate ==
    \A i \in 1..Len(drained) :
        LET m == drained[i].message
        IN (IsFrame(m) /\ m[4] = 0 /\ m[3] \in MappedOpcodes /\ m[5] = 0) =>
              /\ drained[i].changed = {}
              /\ drained[i].notified = 0

\* an empty surround-mode report met a session whose surround mode is 1, not
\* the default 6
C24_Witness ==
    /\ drained = <<[message |-> <<2, 35, 8, 0, 0, 13>>, changed |-> {}, notified |-> 0]>>
    /\ self._surround_mode = 1

----------------------------------------------------------------------------
(* C25 *)

\* a success initialization frame that holds its payload byte
ModelReport(m) ==
    IsFrame(m) /\ m[3] = 80 /\ m[4] = 0 /\ m[5] > 0 /\ Len(m) >= 6 + m[5]

\* C25: a success initialization frame with payload byte m sets the model to
\* m, and a notification is emitted exactly when that changes the model.
C25_ModelIsReconciled ==
    (Len(drained) = 1 /\ ModelReport(drained[1].message)) =>
        /\ self._model = drained[1].message[6]
        /\ drained[1].notified = (IF "_model" \in drained[1].changed THEN 1 ELSE 0)

\* the part of C25 about the stored value
C25_ModelIsStored ==
    (Len(drained) = 1 /\ ModelReport(drained[1].message)) =>
        self._model = drained[1].message[6]

----------------------------------------------------------------------------
(* C26 *)

\* C26: when opening the transport fails, establish_connection raises and the
\* reader and writer handles and the initialized flag are what they were
\* before the call; the session stays disconnected and the control operation
\* that follows reports failure.
C26_ConnectFailureLeavesSession ==
    [][/\ event' = "connect_error" =>
            /\ self'._reader = self._reader
            /\ self'._writer = self._writer
            /\ self'._initialized = self._initialized
            /\ pc' = "Disconnected" /\ link' = link
       /\ (event = "connect_error" /\ event' = "control") =>
            result' = "False" /\ sent' = <<>>]_vars

\* a reconnect after an earlier session (its volume is still cached) failed
C26_Witness ==
    /\ event = "connect_error"
    /\ self._volume = 1
    /\ self._writer = None /\ self._reader = None /\ ~self._initialized

----------------------------------------------------------------------------
(* C27 *)

\* the argument brought into 0..99
Clamped(v) == IF v < 0 THEN 0 ELSE IF v > 99 THEN 99 ELSE v

\* C27: for every integer argument, set_volume sends 23 06 01 v 0D and
\* set_party_volume sends 23 0A 01 v 0D with v the argument clamped into
\* 0..99; nothing is sent without a writer; the call returns True only when
\* the command was written, and on a transport that is still up after the
\* write it returned True.
C27_VolumeIsClamped ==
    (event = "control" /\ call.name \in {"set_volume", "set_party_volume"}) =>
        LET op == IF call.name = "set_volume" THEN 6 ELSE 10
        IN /\ self._writer = None => (sent = <<>> /\ result = "False")
           /\ self._writer # None => sent = <<<<35, op, 1, Clamped(call.arg), 13>>>>
           /\ result \in {"True", "False"}
           /\ result = "True" => sent # <<>>
           /\ (sent # <<>> /\ link = "up") => result = "True"

\* set_volume(1000) went out as volume 99 and returned True
C27_Witness ==
    /\ event = "control"
    /\ call = [name |-> "set_volume", arg |-> 1000]
    /\ sent = <<<<35, 6, 1, 99, 13>>>>
    /\ result = "True"

----------------------------------------------------------------------------
(* C28 *)

StatusCodes == {"OK", "BAD_REQUEST", "NOT_IMPLEMENTED", "SERVER_ERROR"}

\* C28: whatever the entity, the command id and the params, handle_command
\* returns one of OK, BAD_REQUEST, NOT_IMPLEMENTED, SERVER_ERROR and raises
\* nothing; it returns OK only after a device method wrote its command and
\* returned True.
C28_CommandReturnsStatus ==
    event = "command" =>
        /\ status \in StatusCodes
        /\ status = "OK" => (result = "True" /\ Len(sent) = 1 /\ call # NoCall)
        /\ result = "False" => status = "SERVER_ERROR"

\* a volume request whose value is no number: the ValueError of int() is
\* caught and answered with SERVER_ERROR, nothing is written
C28_Witness ==
    /\ event = "command"
    /\ handled.entity = "media_player" /\ handled.cmd_id = "volume"
    /\ handled.params = Param("volume", "str", 0, "loud")
    /\ status = "SERVER_ERROR"
    /\ result = "none" /\ sent = <<>>

----------------------------------------------------------------------------
(* C29 *)

\* C29: when the buffer holds at least 5 bytes and no 02 23 marker,
\* _extract_message returns incomplete; it clears the whole buffer if its
\* length is strictly greater than 100 and leaves it byte for byte as it is
\* if its length is 100 or less.
C29_GarbageDropThreshold ==
    [][LET b == buffer \o lastRead'
       IN (lastRead' # NoRead /\ Len(b) >= 5
           /\ ~\E i \in 1..(Len(b) - 1) : b[i] = 2 /\ b[i + 1] = 35) =>
             /\ drained' = <<>>
             /\ buffer' = IF Len(b) > 100 THEN <<>> ELSE b]_vars

\* 100 marker-less bytes were kept, and the one byte of the next read made
\* the 101 bytes that are cleared
C29_Witness ==
    /\ cuts = <<100, 1>>
    /\ pos = 101
    /\ stream \in GarbageThenFrame
    /\ drained = <<>>
    /\ buffer = <<>>

----------------------------------------------------------------------------
(* C30 *)

\* the offset of the first 02 23 in b, b has one
FirstMarker(b) ==
    CHOOSE i \in 1..(Len(b) - 1) :
        /\ b[i] = 2 /\ b[i + 1] = 35
        /\ \A j \in 1..(i - 1) : ~(b[j] = 2 /\ b[j + 1] = 35)

\* b has a marker and no terminator at or after the first one
Unterminated(b) ==
    /\ \E i \in 1..(Len(b) - 1) : b[i] = 2 /\ b[i + 1] = 35
    /\ \A k \in FirstMarker(b)..Len(b) : b[k] # 13

\* C30 (as amended): when the buffer holds at least 5 bytes and contains a
\* 02 23 marker but no 0D at or after it, _extract_message returns incomplete
\* and the buffer afterwards is exactly the bytes from the first marker
\* onward, whatever its length.
C30_PartialFrameKept ==
    [][LET b == buffer \o lastRead'
       IN (lastRead' # NoRead /\ Len(b) >= 5 /\ Unterminated(b)) =>
             /\ drained' = <<>>
             /\ buffer' = SubSeq(b, FirstMarker(b), Len(b))]_vars

\* C30 as stated: the same for every buffer length
C30_Original ==
    [][LET b == buffer \o lastRead'
       IN (lastRead' # NoRead /\ Unterminated(b)) =>
             /\ drained' = <<>>
             /\ buffer' = SubSeq(b, FirstMarker(b), Len(b))]_vars

\* a prefix with a terminator in it was discarded and more than 100 bytes of
\* an unterminated frame are kept
C30_Witness ==
    /\ stream = <<0, 13, 0, 2, 35, 6, 0>> \o [i \in 1..GarbageLen |-> 1]
    /\ pos = Len(stream)
    /\ drained = <<>>
    /\ buffer = SubSeq(stream, 4, Len(stream))
    /\ Len(buffer) > 100

----------------------------------------------------------------------------
(* C31 *)

\* message reports a value for attribute a
Reports(m, a) ==
    /\ IsFrame(m)
    /\ m[4] = STATUS_UPDATE
    /\ m[3] \in DOMAIN MappedAttribute /\ MappedAttribute[m[3]] = a
    /\ m[5] > 0 /\ Len(m) >= 6 + m[5]

\* the value of attribute a after the frames of log were applied to s in
\* stream order: that of the last frame reporting a, the old one without such
\* a frame
LastWins(s, log, a) ==
    LET hits == {i \in 1..Len(log) : Reports(log[i].message, a)}
    IN IF hits = {} THEN s[a]
       ELSE LET last == CHOOSE i \in hits : \A j \in hits : j <= i
            IN Decoded(log[last].message[3], log[last].message[6])

\* the step applied every frame the buffer held, in stream order
DrainedInOrder ==
    /\ _extract_message(buffer').is_none
    /\ \A a \in Attributes : self'[a] = LastWins(self, drained', a)

\* C31: when one read contains several back-to-back frames, all of them are
\* applied before the next read and the snapshot after the drain is the
\* result of applying them in stream order, the last frame of an attribute
\* winning.
C31_AllFramesAppliedInOrder ==
    [][lastRead' # NoRead => DrainedInOrder]_vars

\* the same for the reads during which nothing raises
C31_AppliedInOrderUnlessRaised ==
    [][event' = "data" => DrainedInOrder]_vars

\* two volume frames came in one read and the second one won
C31_TwoFramesOneRead ==
    /\ event = "data"
    /\ lastRead = <<2, 35, 6, 0, 1, 1, 13, 2, 35, 6, 0, 1, 0, 13>>
    /\ Len(drained) = 2
    /\ self._volume = 0
    /\ buffer = <<>>

----------------------------------------------------------------------------
(* C32 *)

\* marker, opcode, result code, a length byte equal to the payload length,
\* the payload without a 0D in it, terminator
WellFormed(m) ==
    /\ Len(m) >= 6
    /\ m = Frame(m[3], m[4], SubSeq(m, 6, Len(m) - 1))
    /\ \A i \in 6..(Len(m) - 1) : m[i] # 13

\* C32: a well-formed frame whose payload contains no 0D, read into an empty
\* buffer, is extracted intact as one frame, whatever its opcode, result code
\* and length byte, opcode roomEq 0x0D and length 13 included.
C32_WellFormedFrameIntact ==
    (WellFormed(stream) /\ cuts = <<Len(stream)>>) =>
        /\ Messages(drained) = <<stream>>
        /\ buffer = <<>>

\* the frames among them with no 0D in opcode, result code and length byte
C32_IntactWithoutHeaderCollision ==
    (WellFormed(stream) /\ cuts = <<Len(stream)>> /\ \A i \in 3..5 : stream[i] # 13) =>
        /\ Messages(drained) = <<stream>>
        /\ buffer = <<>>

\* the frame 02 23 FF FF 01 FF 0D came out whole
C32_OtherOpcodeIntact ==
    /\ stream = <<2, 35, 255, 255, 1, 255, 13>>
    /\ cuts = <<7>>
    /\ Messages(drained) = <<stream>>

----------------------------------------------------------------------------
(* C33 *)

\* the frames one read of the whole stream into an empty buffer yields
SingleShot(st) == Messages(Drain(st, ReadySelf, <<>>).log)

\* C33: the frames extracted from a byte stream do not depend on how it is
\* cut into reads: once the whole stream has been read, with a drain after
\* each read, the frames extracted are those of a single read of the whole
\* stream, in the same order.
C33_ChunkingIndependent ==
    pos = Len(stream) => outAll = SingleShot(stream)

\* the same for the streams that are one frame of the protocol
C33_OneFrameIndependent ==
    (pos = Len(stream) /\ stream \in CodecFrames \cup HeaderFrames) =>
        outAll = SingleShot(stream)

\* a volume frame read byte by byte came out as from a single read
C33_ByteByByte ==
    /\ stream = <<2, 35, 6, 0, 1, 1, 13>>
    /\ cuts = <<1, 1, 1, 1, 1, 1, 1>>
    /\ outAll = <<stream>>

----------------------------------------------------------------------------
(* C34 *)

\* every call of the drain of b that returns a frame leaves a strictly
\* shorter buffer, down to the call that returns None
RECURSIVE Shortens(_)
Shortens(b) ==
    LET r == _extract_message(b)
    IN \/ r.is_none
       \/ /\ Len(r.message) >= 1
          /\ Len(r.buffer) < Len(b)
          /\ Shortens(r.buffer)

\* C34: the drain loop terminates for every buffer content: each call of
\* _extract_message that returns a frame strictly shortens the buffer, there
\* are no more calls returning a frame than the buffer has bytes, the last
\* call returns None and the session is back at reading.
C34_DrainTerminates ==
    [][lastRead' # NoRead =>
         LET b == buffer \o lastRead'
         IN /\ Shortens(b)
            /\ Len(drained') <= Len(b)
            /\ Len(buffer') + Len(drained') <= Len(b)
            /\ _extract_message(buffer').is_none
            /\ pc' = "Ready"]_vars

\* a read of three frames was drained in three calls and a fourth returned
\* None
C34_Witness ==
    /\ Len(stream) = 21
    /\ cuts = <<21>>
    /\ Len(drained) = 3
    /\ self._volume = 3
    /\ buffer = <<>>
    /\ pc = "Ready"

----------------------------------------------------------------------------
(* C35 *)

\* m is what one call may return from b, leaving rest: m starts with 02 23,
\* ends with 0D and has no other 0D, and b is a prefix without marker, then
\* m, then rest
ReturnedFrame(b, m, rest) ==
    /\ Len(m) >= 3 /\ m[1] = 2 /\ m[2] = 35
    /\ m[Len(m)] = 13
    /\ \A i \in 1..(Len(m) - 1) : m[i] # 13
    /\ \E j \in 0..(Len(b) - Len(m)) :
          /\ b = SubSeq(b, 1, j) \o m \o rest
          /\ \A i \in 1..(j - 1) : ~(b[i] = 2 /\ b[i + 1] = 35)

\* every call of the drain of b that returns a frame returns such a frame
RECURSIVE FramesOnly(_)
FramesOnly(b) ==
    LET r == _extract_message(b)
    IN \/ r.is_none
       \/ /\ ReturnedFrame(b, r.message, r.buffer)
          /\ FramesOnly(r.buffer)

\* C35: every frame returned by _extract_message starts with 02 23, ends
\* with 0D and contains no other 0D, and the bytes the call removes from the
\* buffer are that frame and the prefix in front of its marker.
C35_ReturnedFrameShape ==
    [][lastRead' # NoRead =>
         /\ FramesOnly(buffer \o lastRead')
         /\ \A i \in 1..Len(drained') :
               LET m == drained'[i].message
               IN /\ SubSeq(m, 1, 2) = <<2, 35>>
                  /\ {k \in 1..Len(m) : m[k] = 13} = {Len(m)}]_vars

\* a prefix with a 0D in it was removed together with the frame behind it
C35_Witness ==
    /\ stream = <<0, 13, 2, 35, 0, 13>>
    /\ cuts = <<6>>
    /\ Messages(drained) = << <<2, 35, 0, 13>> >>
    /\ buffer = <<>>

----------------------------------------------------------------------------
(* C36 *)

\* the volume-set frame of value v
VolumeSet(v) == <<35, 6, 1, v, 13>>

\* C36: volume_up sends the cached volume plus one and volume_down the
\* cached volume minus one, brought into 0..99 (99 stays 99, 0 stays 0),
\* whatever volume 0..255 a frame has put into the cache; the cache is left
\* as it is, so the same call made again with no step in between sends the
\* same frame.
C36_VolumeStepFromCache ==
    [][(event' = "control" /\ call'.name \in {"volume_up", "volume_down"}) =>
         LET step == IF call'.name = "volume_up" THEN 1 ELSE -1
             v == Clamped(self._volume + step)
         IN /\ v \in 0..99
            /\ self'._volume = self._volume
            /\ self._writer # None => sent' = <<VolumeSet(v)>>
            /\ self._writer = None => sent' = <<>>
            /\ (event = "control" /\ call.name = call'.name
                /\ sent # <<>> /\ sent' # <<>>) => sent' = sent]_vars

\* the receiver reported volume 255 and volume_down sent 99
C36_Witness ==
    /\ event = "control" /\ call.name = "volume_down"
    /\ self._volume = 255
    /\ sent = <<VolumeSet(99)>>
    /\ result = "True"

----------------------------------------------------------------------------
(* C37 *)

\* the step is a mute toggle of an entity / the remote's POWER_TOGGLE
MuteToggle(e, c) == e = "command" /\ c.name = "mute_toggle"
PowerToggle(e, h) == e = "command" /\ h.entity = "remote" /\ h.cmd_id = "POWER_TOGGLE"

\* C37: mute_toggle and the remote's POWER_TOGGLE pick their command from
\* the cached snapshot alone (muted: mute off, else mute on; power on: power
\* off, else power on) and leave the snapshot as it is, so a second toggle
\* with no frame read in between sends the same command again.
C37_ToggleFromCache ==
    [][/\ MuteToggle(event', call') =>
            /\ self' = self
            /\ self._writer # None =>
                  sent' = <<IF self._muted THEN cmd_mute_off ELSE cmd_mute_on>>
            /\ (MuteToggle(event, call) /\ sent # <<>> /\ sent' # <<>>) => sent' = sent
       /\ PowerToggle(event', handled') =>
            /\ self' = self
            /\ self._writer # None =>
                  sent' = <<IF self._power_state THEN cmd_power_off ELSE cmd_power_on>>
            /\ (PowerToggle(event, handled) /\ sent # <<>> /\ sent' # <<>>) => sent' = sent]_vars

\* the receiver reported mute on and the toggle sent mute off
C37_Witness ==
    /\ MuteToggle(event, call)
    /\ self._muted
    /\ sent = <<cmd_mute_off>>
    /\ cmd_mute_off # cmd_mute_on
    /\ status = "OK"

----------------------------------------------------------------------------
(* C38 *)

\* the parameter a selection request reads, and the name table it looks in
SelectionKey(h) ==
    CASE h.entity = "media_player" /\ h.cmd_id = "select_source" -> "source"
      [] h.entity = "media_player" /\ h.cmd_id = "select_sound_mode" -> "mode"
      [] h.entity \in {"select", "surround_mode_select"} /\ h.cmd_id = "select_option" -> "option"
      [] OTHER -> ""
SelectionNames(h) ==
    IF h.cmd_id = "select_source" \/ h.entity = "select"
    THEN INPUT_SOURCE_NAMES ELSE SURROUND_MODE_NAMES
IsSelection(h) == h # NoCommand /\ SelectionKey(h) # ""
MissingParam(h) == h.params.key # SelectionKey(h)
UnknownName(h) ==
    /\ ~MissingParam(h)
    /\ \A i \in DOMAIN SelectionNames(h) : SelectionNames(h)[i] # h.params.s

\* C38: a select_source, select_sound_mode or select_option request that
\* names an option outside the name table, or has no such parameter, is
\* answered BAD_REQUEST (NOT_IMPLEMENTED by the select entities when the
\* parameter is missing) and nothing is written to the socket.
C38_BadSelectionWritesNothing ==
    (event = "command" /\ IsSelection(handled) /\ (MissingParam(handled) \/ UnknownName(handled))) =>
        /\ status = IF MissingParam(handled) /\ handled.entity # "media_player"
                    THEN "NOT_IMPLEMENTED" ELSE "BAD_REQUEST"
        /\ sent = <<>>
        /\ call = NoCall

\* a connected select entity asked for an option it does not know
C38_Witness ==
    /\ event = "command"
    /\ handled # NoCommand
    /\ handled.entity = "select" /\ handled.cmd_id = "select_option"
    /\ UnknownName(handled)
    /\ self._writer # None /\ link = "up"
    /\ status = "BAD_REQUEST"
    /\ sent = <<>>

----------------------------------------------------------------------------
(* C39 *)

SendCmd(h) == h.entity = "remote" /\ h.cmd_id = "send_cmd"
NamesCommand(h) == h.params.key = "command" /\ h.params.kind = "str"

\* C39: the remote's send_cmd ends with at most two handle_command frames
\* on the stack: the inner call has no params, so it runs the named command
\* as a request without params would, a send_cmd naming send_cmd is answered
\* BAD_REQUEST with nothing written, and no request writes more than one
\* device command.
C39_SendCmdDepthAtMostTwo ==
    event = "command" =>
        /\ Len(sent) <= 1
        /\ handled.depth \in 1..2
        /\ status \in StatusCodes
        /\ SendCmd(handled) =>
             /\ handled.depth = IF NamesCommand(handled) THEN 2 ELSE 1
             /\ NamesCommand(handled) =>
                  LET inner == JBLAVRemote_handle_command(self, handled.params.s, NoParams)
                  IN /\ inner.depth = 1
                     /\ inner.kind = "reply" => status = inner.status /\ sent = <<>>
                     /\ inner.kind = "await" =>
                          /\ call.name = inner.call.name
                          /\ sent \in {<<>>, <<inner.call.command>>}
             /\ (NamesCommand(handled) /\ handled.params.s = "send_cmd") =>
                  status = "BAD_REQUEST" /\ sent = <<>> /\ call = NoCall

\* a connected remote asked to send_cmd the command send_cmd
C39_Witness ==
    /\ event = "command"
    /\ SendCmd(handled)
    /\ NamesCommand(handled) /\ handled.params.s = "send_cmd"
    /\ handled.depth = 2
    /\ self._writer # None /\ link = "up"
    /\ status = "BAD_REQUEST"

====
